---- MODULE Spec2Model ----
(***************************************************************************)
(* State-machine model of the AutoAgent repository: the browser/context    *)
(* pool (Agents/Browser_Agent.py), the human-input correlator              *)
(* (Agents/custom_controllers/Interrup_controller.py and                   *)
(* Utils/websocket_manager.py), the routing function                       *)
(* (Utils/routing_module.py), the executor loop and run                    *)
(* (Agents/workers/form_agent.py), the structured-response handler         *)
(* (Utils/structured_llm.py) and the executor and human stages of          *)
(* Agents/main_agent.py.                                                   *)
(***************************************************************************)
EXTENDS Naturals, Sequences, FiniteSets

(***************************************************************************)
(* Bounds of the model.                                                    *)
(***************************************************************************)
\* largest max_browsers / max_contexts_per_browser a handler is built with
MaxBrowsersBound == 2
MaxContextsBound == 2
\* number of context ids that callers pass by name
NumCallerIds == 2
\* number of create_context calls that draw fresh uuids / build a context
MaxSerial == 2
\* number of leading create_context(None) results kept in hist
MaxHist == 3
\* number of human-input requests made
MaxRequests == 2
\* longest conditional_nodes and routes lists
MaxRoute == 2
\* longest send_list entry
MaxSend == 2
\* largest max_steps an AutoAgent is built with
MaxStepsBound == 3
\* largest max_retries a StructuredLLMHandler is built with, and largest
\* retry_attempts a call passes
MaxRetriesBound == 2

VARIABLES
  \* ---- BrowserAgentHandler (Browser_Agent.py)
  _max_browsers,               \* self._max_browsers
  _max_contexts_per_browser,   \* self._max_contexts_per_browser
  _on_step_screenshot,         \* self._on_step_screenshot
  _browsers,                   \* self._browsers, in dict (insertion) order
  _context_to_browser,         \* self._context_to_browser
  serial,                      \* number of uuid4()/constructor draws so far
  lastOp,                      \* the last completed call, its outcome, and
                               \* the browsers whose close() raised in it
  hist,                        \* outcomes of the first calls on the handler
  task,                        \* the coroutines calling the handler, and where
                               \* each one is suspended
  \* ---- human input (Interrup_controller.py, websocket_manager.py)
  wait_for_impl,               \* which asyncio.wait_for the interpreter has
  _websocket_server,           \* module global: TRUE when it is not None
  _connected_clients,          \* module global
  _pending_requests,           \* module global: the request ids registered
  pending_requests,            \* ConnectionManager.pending_requests, its ids
  future,                      \* the Future of each request id ever drawn
  request,                     \* what the caller of each request observed
  ask,                         \* the coroutines asking, and where each is
  stopping,                    \* stop_websocket_server is suspended
  future_result,               \* what set_result stored in a future, by id
  answer,                      \* the value each client puts in its responses
  active_connections,          \* ws_manager.active_connections (main.py)
  ws_pending_requests,         \* ws_manager.pending_requests (main.py)
  \* ---- workflow state (AutoAgentState) and the routing function
  route_config,                \* state.route_config
  routes,                      \* state.routes
  send_list,                   \* state.send_list: references to sub-states
  heap,                        \* the InternalState objects, by reference
  routed,                      \* the last call of a routing function
  \* ---- AutoAgent.executor_node (workers/form_agent.py)
  _max_steps,                  \* self._max_steps
  step,                        \* local step
  failure,                     \* local failure
  results,                     \* state.results
  executor,                    \* where executor_node is, how it ended and why
  automation_errors,           \* number of run_task calls that raised
  run,                         \* where AutoAgent.run is, and its context_id
  \* ---- StructuredLLMHandler (Utils/structured_llm.py)
  _max_retries,                \* self._max_retries
  llm,                         \* where get_structured_response is, the model
                               \* invocations it made and how it ended
  \* ---- AutoAgent of main_agent.py: executor_node and human_node
  _loop_steps,                 \* self._loop_steps
  main,                        \* the stage the workflow is at, the fields of
                               \* its AutoAgentState and how it ended
  \* ---- main_app.py and run_agent_task (agent_setup.py)
  session                      \* where the session's agent task is, whether a
                               \* cancellation is on its way to it, and
                               \* whether the application's lifespan is over

poolVars == <<_max_browsers, _max_contexts_per_browser, _on_step_screenshot,
              _browsers, _context_to_browser, serial, lastOp, hist>>

stateVars == <<route_config, routes, send_list, heap, routed>>

llmVars == <<_max_retries, llm>>

mainVars == <<_loop_steps, main>>

workflowVars == <<_max_steps, step, failure, results, executor,
                  automation_errors, run, llmVars, mainVars>>

execVars == <<workflowVars, session>>

\* what the human-input part leaves alone
nonAskVars == <<_max_browsers, _max_contexts_per_browser, _on_step_screenshot,
                _browsers, _context_to_browser, serial, lastOp, hist, task,
                stateVars, execVars>>

\* the registry of main.py's WebSocketManager
wsVars == <<active_connections, ws_pending_requests>>

askVars == <<wait_for_impl, _websocket_server, _connected_clients,
             _pending_requests, pending_requests, future, request, ask,
             stopping, future_result, answer, wsVars>>

\* the parts of the program that do not touch the handler
otherVars == <<askVars, stateVars, execVars>>

\* what the calls on the handler leave alone
nonPoolVars == <<task, otherVars>>

vars == <<poolVars, task, otherVars>>

(***************************************************************************)
(* Python values.                                                          *)
(***************************************************************************)
\* None, and the falsy context_id that makes create_context draw a uuid
None == 0

CallerIds == 1..NumCallerIds

\* str(uuid.uuid4()) of the s-th draw: a context id no caller passes
Uuid(s) == NumCallerIds + s

Min(S) == CHOOSE x \in S : \A y \in S : x <= y

(***************************************************************************)
(* dict helpers; a dict is a sequence of entries in insertion order.       *)
(***************************************************************************)
BrowserIds(B) == {B[i].id : i \in DOMAIN B}

BrowserIndex(B, bid) == CHOOSE i \in DOMAIN B : B[i].id = bid

ContextKeys(ctxs) == {ctxs[i].cid : i \in DOMAIN ctxs}

\* contexts.get(context_id)
ContextGet(ctxs, cid) ==
  IF cid \in ContextKeys(ctxs)
  THEN ctxs[CHOOSE i \in DOMAIN ctxs : ctxs[i].cid = cid].obj
  ELSE None

\* contexts[context_id] = context: an existing key keeps its place
ContextSet(ctxs, cid, obj) ==
  IF cid \in ContextKeys(ctxs)
  THEN [i \in DOMAIN ctxs |->
          IF ctxs[i].cid = cid THEN [cid |-> cid, obj |-> obj] ELSE ctxs[i]]
  ELSE Append(ctxs, [cid |-> cid, obj |-> obj])

\* del contexts[context_id]
ContextDel(ctxs, cid) ==
  LET keep(e) == e.cid # cid IN SelectSeq(ctxs, keep)

\* del self._browsers[browser_id]
BrowserDel(B, bid) ==
  LET keep(e) == e.id # bid IN SelectSeq(B, keep)

\* del self._context_to_browser[context_id]
IndexDel(C, cid) == [c \in DOMAIN C \ {cid} |-> C[c]]

\* self._context_to_browser[context_id] = browser_id
IndexSet(C, cid, bid) ==
  [c \in DOMAIN C \cup {cid} |-> IF c = cid THEN bid ELSE C[c]]

(***************************************************************************)
(* BrowserAgentHandler._create_browser                                     *)
(***************************************************************************)
\* mutant: the limit test off by one
BrowserLimitReached_OffByOne(B, maxb) == Len(B) > maxb

\* the limit test of line 137
BrowserLimitReached(B, maxb) == Len(B) >= maxb

_create_browser(B, maxb, s) ==
  IF BrowserLimitReached(B, maxb)
  THEN [exc |-> "RuntimeError", B |-> B, bid |-> None]
  ELSE [exc |-> "none",
        B |-> Append(B, [id |-> s, contexts |-> <<>>]),
        bid |-> s]

(***************************************************************************)
(* BrowserAgentHandler.get_available_browser                               *)
(***************************************************************************)
\* mutant: the capacity test off by one
HasFreeSlot_OffByOne(b, maxc) == Len(b.contexts) <= maxc

\* the capacity test of line 172
HasFreeSlot(b, maxc) == Len(b.contexts) < maxc

\* mutant: a new browser while the limit allows, an existing one after
get_available_browser_Fresh(B, maxb, maxc, s) ==
  LET free == {i \in DOMAIN B : HasFreeSlot(B[i], maxc)} IN
  IF ~BrowserLimitReached(B, maxb) THEN _create_browser(B, maxb, s)
  ELSE IF free # {}
  THEN [exc |-> "none", B |-> B, bid |-> B[Min(free)].id]
  ELSE [exc |-> "RuntimeError", B |-> B, bid |-> None]

get_available_browser(B, maxb, maxc, s) ==
  LET free == {i \in DOMAIN B : HasFreeSlot(B[i], maxc)} IN
  IF free # {}
  THEN [exc |-> "none", B |-> B, bid |-> B[Min(free)].id]
  ELSE _create_browser(B, maxb, s)

(***************************************************************************)
(* BrowserAgentHandler.create_context.  s is the serial of this call: the  *)
(* id of a browser it creates, the uuid it draws and the context object it *)
(* builds.  The handler's _input_queues is never written, so the cleanup   *)
(* of the except branch changes nothing.                                   *)
(***************************************************************************)
\* lines 194-231, with browser_id in hand
InsertContext(B, C, bid, shot, cid0, s) ==
  LET cid == IF cid0 = None THEN Uuid(s) ELSE cid0 IN
  IF bid \notin BrowserIds(B)
  THEN \* KeyError at line 201, re-raised at line 238
       [exc |-> "RuntimeError", why |-> "KeyError", B |-> B, C |-> C,
        cid |-> cid, obj |-> None, drew |-> TRUE]
  ELSE IF ~shot
  THEN \* "context" is unbound at line 227: UnboundLocalError, re-raised
       [exc |-> "RuntimeError", why |-> "unbound", B |-> B, C |-> C,
        cid |-> cid, obj |-> None, drew |-> TRUE]
  ELSE LET i == BrowserIndex(B, bid) IN
       [exc |-> "none", why |-> "none",
        B |-> [B EXCEPT ![i].contexts = ContextSet(@, cid, s)],
        C |-> IndexSet(C, cid, bid),
        cid |-> cid, obj |-> s, drew |-> TRUE]

create_context(B, C, maxb, maxc, shot, cid0, s) ==
  LET gab == get_available_browser(B, maxb, maxc, s) IN
  IF gab.exc # "none"
  THEN [exc |-> "RuntimeError", why |-> "exhausted", B |-> B, C |-> C,
        cid |-> cid0, obj |-> None, drew |-> FALSE]
  ELSE InsertContext(gab.B, C, gab.bid, shot, cid0, s)

(***************************************************************************)
(* BrowserAgentHandler.get_context                                         *)
(***************************************************************************)
\* mutant: the lookup of line 250 always misses
ContextMissing_Always(C, cid) == TRUE

\* the test of line 250
ContextMissing(C, cid) == cid \notin DOMAIN C

get_context(B, C, maxb, maxc, shot, cid, s) ==
  LET miss == ContextMissing(C, cid)
      cc   == create_context(B, C, maxb, maxc, shot, cid, s)
      B1   == IF miss THEN cc.B ELSE B
      C1   == IF miss THEN cc.C ELSE C
  IN
  IF miss /\ cc.exc # "none"
  THEN [exc |-> "RuntimeError", B |-> B1, C |-> C1, ret |-> None,
        created |-> FALSE, drew |-> cc.drew]
  ELSE IF C1[cid] \notin BrowserIds(B1)
  THEN [exc |-> "KeyError", B |-> B1, C |-> C1, ret |-> None,
        created |-> FALSE, drew |-> FALSE]
  ELSE [exc |-> "none", B |-> B1, C |-> C1,
        ret |-> ContextGet(B1[BrowserIndex(B1, C1[cid])].contexts, cid),
        created |-> miss, drew |-> miss]

(***************************************************************************)
(* BrowserAgentHandler.close_context.  raises: context.close() raises.     *)
(***************************************************************************)
close_context(B, C, cid, raises) ==
  IF cid \notin DOMAIN C
  THEN [ret |-> FALSE, B |-> B, C |-> C]
  ELSE IF C[cid] \notin BrowserIds(B)
  THEN \* KeyError at line 481, caught at line 502
       [ret |-> FALSE, B |-> B, C |-> C]
  ELSE LET i == BrowserIndex(B, C[cid]) IN
       IF ContextGet(B[i].contexts, cid) = None
       THEN [ret |-> FALSE, B |-> B, C |-> C]
       ELSE IF raises
       THEN [ret |-> FALSE, B |-> B, C |-> C]
       ELSE [ret |-> TRUE,
             B |-> [B EXCEPT ![i].contexts = ContextDel(@, cid)],
             C |-> IndexDel(C, cid)]

\* the context object close_context would await close() on, or None
ClosedObject(B, C, cid) ==
  IF cid \in DOMAIN C /\ C[cid] \in BrowserIds(B)
  THEN ContextGet(B[BrowserIndex(B, C[cid])].contexts, cid)
  ELSE None

(***************************************************************************)
(* BrowserAgentHandler.close_browser.  failObjs: the context objects whose *)
(* close() raises; browserRaises: browser.close() raises.                  *)
(***************************************************************************)
\* close_context on the pair of dicts P = [B, C]
CloseOne(P, cid, failObjs) ==
  close_context(P.B, P.C, cid, ClosedObject(P.B, P.C, cid) \in failObjs)

RECURSIVE CloseContexts(_, _, _)
\* the loop of lines 523-524 over list(contexts.keys())
CloseContexts(P, keys, failObjs) ==
  IF keys = <<>>
  THEN P
  ELSE CloseContexts(CloseOne(P, Head(keys), failObjs), Tail(keys), failObjs)

\* lines 526-535, after the loop left the dicts as P
CloseBrowserHandle(P, bid, browserRaises) ==
  IF browserRaises
  THEN [ret |-> FALSE, B |-> P.B, C |-> P.C]
  ELSE [ret |-> TRUE, B |-> BrowserDel(P.B, bid), C |-> P.C]

close_browser(B, C, bid, failObjs, browserRaises) ==
  IF bid \notin BrowserIds(B)
  THEN [ret |-> FALSE, B |-> B, C |-> C]
  ELSE LET ctxs == B[BrowserIndex(B, bid)].contexts
           keys == [i \in DOMAIN ctxs |-> ctxs[i].cid]
       IN CloseBrowserHandle(CloseContexts([B |-> B, C |-> C], keys, failObjs),
                             bid, browserRaises)

(***************************************************************************)
(* BrowserAgentHandler.close_all.  failBrowsers: the browsers whose        *)
(* close() raises.                                                         *)
(***************************************************************************)
RECURSIVE CloseBrowsers_StopAtFailure(_, _, _, _)
\* mutant: the sweep ends at the first browser whose close() raises
CloseBrowsers_StopAtFailure(P, bids, failObjs, failBrowsers) ==
  IF bids = <<>>
  THEN P
  ELSE IF Head(bids) \in failBrowsers
  THEN close_browser(P.B, P.C, Head(bids), failObjs, TRUE)
  ELSE CloseBrowsers_StopAtFailure(close_browser(P.B, P.C, Head(bids),
                                                 failObjs, FALSE),
                                   Tail(bids), failObjs, failBrowsers)

RECURSIVE CloseBrowsers(_, _, _, _)
\* the loop of lines 547-548 over list(self._browsers.keys())
CloseBrowsers(P, bids, failObjs, failBrowsers) ==
  IF bids = <<>>
  THEN P
  ELSE CloseBrowsers(close_browser(P.B, P.C, Head(bids), failObjs,
                                   Head(bids) \in failBrowsers),
                     Tail(bids), failObjs, failBrowsers)

close_all(B, C, failObjs, failBrowsers) ==
  CloseBrowsers([B |-> B, C |-> C], [i \in DOMAIN B |-> B[i].id],
                failObjs, failBrowsers)

(***************************************************************************)
(* The handler after __init__, and one caller making calls one after the   *)
(* other.                                                                  *)
(***************************************************************************)
NoOp == [op |-> "none", arg |-> None, exc |-> "none", why |-> "none",
         ret |-> None, created |-> FALSE, after |-> "new", raised |-> {}]

\* every context object held by some browser
AllObjects(B) ==
  UNION {{B[i].contexts[j].obj : j \in DOMAIN B[i].contexts} : i \in DOMAIN B}

PoolInit ==
  /\ _max_browsers \in 1..MaxBrowsersBound
  /\ _max_contexts_per_browser \in 1..MaxContextsBound
  /\ _on_step_screenshot \in BOOLEAN
  /\ _browsers = <<>>
  /\ _context_to_browser = <<>>
  /\ serial = 0
  /\ lastOp = NoOp
  /\ hist = <<>>

\* no coroutine is inside a call
Idle == [pc |-> "idle", cid |-> None, bid |-> None, s |-> 0, obj |-> None]

\* the workflows that share the handler and the correlator
Tasks == {"w1", "w2"}

\* hist keeps how the leading create_context(None) calls ended, up to MaxHist of
\* them; any other call voids it
Void == <<"other">>

Record(kind) ==
  IF kind = "other" \/ hist = Void THEN Void
  ELSE IF Len(hist) < MaxHist THEN Append(hist, kind)
  ELSE hist

\* how the call relates to the previous one: the same call again, and whether
\* that one created a context
After(op, arg) ==
  IF lastOp.op = op /\ lastOp.arg = arg
  THEN (IF lastOp.created THEN "created" ELSE "same")
  ELSE "new"

CallCreateContext(cid0) ==
  /\ \E r \in {create_context(_browsers, _context_to_browser, _max_browsers,
                             _max_contexts_per_browser, _on_step_screenshot,
                             cid0, serial + 1)} :
        /\ r.drew => serial < MaxSerial
        /\ _browsers' = r.B
        /\ _context_to_browser' = r.C
        /\ serial' = IF r.drew THEN serial + 1 ELSE serial
        /\ lastOp' = [op |-> "create_context", arg |-> None, exc |-> r.exc,
                      why |-> r.why, ret |-> None, created |-> r.exc = "none",
                      after |-> "new", raised |-> {}]
        /\ hist' = Record(IF cid0 # None THEN "other"
                          ELSE IF r.exc = "none" THEN "ok"
                          ELSE IF r.why = "exhausted" THEN "exhausted"
                          ELSE "other")
  /\ UNCHANGED <<_max_browsers, _max_contexts_per_browser,
                 _on_step_screenshot>>
  /\ UNCHANGED nonPoolVars

\* get_context(cid) on the handler, and what it leaves in the pool
GetContextStep(cid) ==
  /\ \E r \in {get_context(_browsers, _context_to_browser, _max_browsers,
                          _max_contexts_per_browser, _on_step_screenshot,
                          cid, serial + 1)} :
        /\ r.drew => serial < MaxSerial
        /\ _browsers' = r.B
        /\ _context_to_browser' = r.C
        /\ serial' = IF r.drew THEN serial + 1 ELSE serial
        /\ lastOp' = [op |-> "get_context", arg |-> cid, exc |-> r.exc,
                      why |-> "none", ret |-> r.ret, created |-> r.created,
                      after |-> After("get_context", cid), raised |-> {}]
        /\ hist' = Record("other")
  /\ UNCHANGED <<_max_browsers, _max_contexts_per_browser,
                 _on_step_screenshot>>

CallGetContext(cid) ==
  /\ GetContextStep(cid)
  /\ UNCHANGED nonPoolVars

\* close_context(cid) on the handler, and what it leaves in the pool
CloseContextStep(cid, raises) ==
  /\ \E r \in {close_context(_browsers, _context_to_browser, cid, raises)} :
        /\ _browsers' = r.B
        /\ _context_to_browser' = r.C
        /\ lastOp' = [op |-> "close_context", arg |-> None, exc |-> "none",
                      why |-> "none", ret |-> IF r.ret THEN 1 ELSE 0, created |-> FALSE,
                      after |-> "new", raised |-> {}]
        /\ hist' = Record("other")
  /\ UNCHANGED <<_max_browsers, _max_contexts_per_browser, _on_step_screenshot,
                 serial>>

CallCloseContext(cid, raises) ==
  /\ CloseContextStep(cid, raises)
  /\ UNCHANGED nonPoolVars

CallCloseBrowser(bid, failObjs, browserRaises) ==
  /\ \E r \in {close_browser(_browsers, _context_to_browser, bid, failObjs,
                            browserRaises)} :
        /\ _browsers' = r.B
        /\ _context_to_browser' = r.C
        /\ lastOp' = [op |-> "close_browser", arg |-> None, exc |-> "none",
                      why |-> "none", ret |-> IF r.ret THEN 1 ELSE 0, created |-> FALSE,
                      after |-> "new", raised |-> {}]
        /\ hist' = Record("other")
  /\ UNCHANGED <<_max_browsers, _max_contexts_per_browser, _on_step_screenshot,
                 serial>>
  /\ UNCHANGED nonPoolVars

\* close_all() on the handler, and what it leaves in the pool
CloseAllStep(failObjs, failBrowsers) ==
  /\ \E r \in {close_all(_browsers, _context_to_browser, failObjs, failBrowsers)} :
        /\ _browsers' = r.B
        /\ _context_to_browser' = r.C
        /\ lastOp' = [op |-> "close_all", arg |-> None, exc |-> "none",
                      why |-> "none", ret |-> None, created |-> FALSE,
                      after |-> "new", raised |-> failBrowsers]
        /\ hist' = Record("other")
  /\ UNCHANGED <<_max_browsers, _max_contexts_per_browser, _on_step_screenshot,
                 serial>>

CallCloseAll(failObjs, failBrowsers) ==
  /\ CloseAllStep(failObjs, failBrowsers)
  /\ UNCHANGED nonPoolVars

\* an id no browser and no context has
Unknown == MaxSerial + NumCallerIds + 1

\* the context objects the close_context calls of close_browser(bid) would close
ObjectsClosedBy(bid) ==
  IF bid \notin BrowserIds(_browsers) THEN {}
  ELSE LET ctxs == _browsers[BrowserIndex(_browsers, bid)].contexts IN
       {ClosedObject(_browsers, _context_to_browser, ctxs[i].cid) :
          i \in DOMAIN ctxs} \ {None}

PoolNext ==
  \/ \E cid0 \in CallerIds \cup {None} : CallCreateContext(cid0)
  \/ \E cid \in CallerIds \cup DOMAIN _context_to_browser : CallGetContext(cid)
  \/ \E cid \in CallerIds \cup DOMAIN _context_to_browser :
        \E raises \in IF ClosedObject(_browsers, _context_to_browser, cid) = None
                      THEN {FALSE} ELSE BOOLEAN :
           CallCloseContext(cid, raises)
  \/ \E bid \in BrowserIds(_browsers) \cup {Unknown} :
        \E failObjs \in SUBSET ObjectsClosedBy(bid),
           browserRaises \in IF bid = Unknown THEN {FALSE} ELSE BOOLEAN :
           CallCloseBrowser(bid, failObjs, browserRaises)
  \/ \E failObjs \in SUBSET AllObjects(_browsers),
        failBrowsers \in SUBSET BrowserIds(_browsers) :
        CallCloseAll(failObjs, failBrowsers)

(***************************************************************************)
(* Several workflows calling the handler on one event loop.  A coroutine   *)
(* runs until it awaits something that suspends; only then can another     *)
(* coroutine run.  The handler holds no lock.                              *)
(***************************************************************************)
\* mutant: every await hands control to the event loop
AwaitYields_Always(callee) == TRUE

\* Whether "await callee(...)" suspends the caller.  context.close() does
\* (browser I/O); get_available_browser and _create_browser contain no await
\* that suspends, so awaiting them runs them to completion inline.
AwaitYields(callee) == callee = "context.close"

\* create_context called by t: atomic, unless the await of line 192 yields
ConcCreateContext(t, cid0) ==
  /\ task[t].pc = "idle"
  /\ \E gab \in {get_available_browser(_browsers, _max_browsers,
                                       _max_contexts_per_browser, serial + 1)} :
       IF gab.exc # "none"
       THEN UNCHANGED <<_browsers, _context_to_browser, serial, task>>
       ELSE /\ serial < MaxSerial
            /\ serial' = serial + 1
            /\ IF AwaitYields("get_available_browser")
               THEN /\ _browsers' = gab.B
                    /\ task' = [task EXCEPT ![t] =
                                  [pc |-> "create_wait", cid |-> cid0,
                                   bid |-> gab.bid, s |-> serial + 1,
                                   obj |-> None]]
                    /\ UNCHANGED _context_to_browser
               ELSE \E r \in {InsertContext(gab.B, _context_to_browser, gab.bid,
                                            _on_step_screenshot, cid0,
                                            serial + 1)} :
                      /\ _browsers' = r.B
                      /\ _context_to_browser' = r.C
                      /\ UNCHANGED task
  /\ UNCHANGED <<_max_browsers, _max_contexts_per_browser, _on_step_screenshot,
                 lastOp, hist, otherVars>>

\* get_context called by t: its only await is create_context
ConcGetContext(t, cid) ==
  /\ task[t].pc = "idle"
  /\ IF ContextMissing(_context_to_browser, cid)
     THEN ConcCreateContext(t, cid)
     ELSE UNCHANGED vars

\* close_context called by t, up to "await context.close()"
ConcCloseContext(t, cid) ==
  /\ task[t].pc = "idle"
  /\ IF ClosedObject(_browsers, _context_to_browser, cid) = None
     THEN \* returns False at line 477, 500 or 504
          UNCHANGED task
     ELSE task' = [task EXCEPT ![t] =
                     [pc |-> "close_wait", cid |-> cid,
                      bid |-> _context_to_browser[cid], s |-> serial,
                      obj |-> ClosedObject(_browsers, _context_to_browser,
                                           cid)]]
  /\ UNCHANGED <<poolVars, otherVars>>

\* lines 488-489 after close() returned; a missing key is the KeyError that
\* line 502 catches, and what was deleted before it stays deleted
FinishClose(B, C, bid, cid) ==
  IF bid \notin BrowserIds(B) \/
     cid \notin ContextKeys(B[BrowserIndex(B, bid)].contexts)
  THEN [ret |-> FALSE, B |-> B, C |-> C]
  ELSE LET B1 == [B EXCEPT ![BrowserIndex(B, bid)].contexts = ContextDel(@, cid)]
       IN IF cid \notin DOMAIN C
          THEN [ret |-> FALSE, B |-> B1, C |-> C]
          ELSE [ret |-> TRUE, B |-> B1, C |-> IndexDel(C, cid)]

\* the event loop resumes t: close() has returned or raised (close_context),
\* or get_available_browser has returned (create_context, if it yielded)
Resume(t, raises) ==
  /\ task[t].pc # "idle"
  /\ \E r \in {IF task[t].pc = "close_wait"
                THEN (IF raises
                      THEN [B |-> _browsers, C |-> _context_to_browser]
                      ELSE FinishClose(_browsers, _context_to_browser,
                                       task[t].bid, task[t].cid))
                ELSE InsertContext(_browsers, _context_to_browser, task[t].bid,
                                   _on_step_screenshot, task[t].cid, task[t].s)} :
        /\ _browsers' = r.B
        /\ _context_to_browser' = r.C
  /\ task' = [task EXCEPT ![t] = Idle]
  /\ UNCHANGED <<_max_browsers, _max_contexts_per_browser, _on_step_screenshot,
                 serial, lastOp, hist, otherVars>>

\* t is outside any call, and its last get_context(cid) returned obj
Returned(cid, obj) ==
  [pc |-> "idle", cid |-> cid, bid |-> None, s |-> 0, obj |-> obj]

\* get_context(cid) called by workflow t, which keeps what it returns
\* (lines 250-256); a RuntimeError of create_context leaves t with nothing
WorkflowGetContext(t, cid) ==
  /\ task[t].pc = "idle"
  /\ IF ~ContextMissing(_context_to_browser, cid)
     THEN /\ task' = [task EXCEPT ![t] =
                        Returned(cid, ClosedObject(_browsers,
                                                   _context_to_browser, cid))]
          /\ UNCHANGED <<_browsers, _context_to_browser, serial>>
     ELSE \E gab \in {get_available_browser(_browsers, _max_browsers,
                                            _max_contexts_per_browser,
                                            serial + 1)} :
            IF gab.exc # "none"
            THEN /\ task' = [task EXCEPT ![t] = Idle]
                 /\ UNCHANGED <<_browsers, _context_to_browser, serial>>
            ELSE /\ serial < MaxSerial
                 /\ serial' = serial + 1
                 /\ IF AwaitYields("get_available_browser")
                    THEN /\ _browsers' = gab.B
                         /\ task' = [task EXCEPT ![t] =
                                       [pc |-> "create_wait", cid |-> cid,
                                        bid |-> gab.bid, s |-> serial + 1,
                                        obj |-> None]]
                         /\ UNCHANGED _context_to_browser
                    ELSE \E r \in {InsertContext(gab.B, _context_to_browser,
                                                 gab.bid, _on_step_screenshot,
                                                 cid, serial + 1)} :
                           /\ _browsers' = r.B
                           /\ _context_to_browser' = r.C
                           /\ task' = [task EXCEPT ![t] =
                                         IF r.exc # "none" THEN Idle
                                         ELSE Returned(cid,
                                                ClosedObject(r.B, r.C, cid))]
  /\ UNCHANGED <<_max_browsers, _max_contexts_per_browser, _on_step_screenshot,
                 lastOp, hist, otherVars>>

\* workflows that reach the handler through run_task (get_context) and
\* through run (close_context) only
WorkflowsNext ==
  \/ \E t \in Tasks, cid \in CallerIds : WorkflowGetContext(t, cid)
  \/ \E t \in Tasks, cid \in CallerIds : ConcCloseContext(t, cid)
  \/ \E t \in Tasks, raises \in BOOLEAN : Resume(t, raises)

ConcNext ==
  \/ \E t \in Tasks, cid0 \in CallerIds \cup {None} : ConcCreateContext(t, cid0)
  \/ \E t \in Tasks, cid \in CallerIds \cup DOMAIN _context_to_browser :
        ConcGetContext(t, cid)
  \/ \E t \in Tasks, cid \in CallerIds \cup DOMAIN _context_to_browser :
        ConcCloseContext(t, cid)
  \/ \E t \in Tasks, raises \in BOOLEAN : Resume(t, raises)

(***************************************************************************)
(* Human input.  Interrup_controller.py keeps its registry in module       *)
(* globals; ConnectionManager (websocket_manager.py) keeps its own.  A     *)
(* request id is the serial of its uuid4() draw, and the registry maps it  *)
(* to the Future created with it, future[rid].                             *)
(***************************************************************************)
\* websocket clients that may connect to the controller's server
Clients == {"c1", "c2"}

\* asyncio.wait_for before Python 3.12 parks the caller on a waiter future
\* released by the timer or by the awaited future; from 3.12 on it awaits the
\* future inside asyncio.timeout(), whose timer cancels the calling task.
WaitForImpls == {"release_waiter", "timeout_scope"}

\* Future.done()
done(f) == f # "pending"

\* the request ids a message may carry: issued ones and ones never issued
RequestIds == 1..MaxRequests

AskIdle == [pc |-> "idle", via |-> "none", rid |-> 0, size |-> 0,
            visited |-> {}, cur |-> "none", failed |-> {}, timer |-> "off"]

NewRequest(via) == [via |-> via, outcome |-> "none", expired |-> FALSE,
                    got |-> "none"]

\* the module globals and the managers as constructed
AskStart ==
  /\ wait_for_impl \in WaitForImpls
  /\ _websocket_server = FALSE
  /\ _connected_clients = {}
  /\ _pending_requests = {}
  /\ pending_requests = {}
  /\ future = <<>>
  /\ future_result = <<>>
  /\ request = <<>>
  /\ ask = [t \in Tasks |-> AskIdle]
  /\ stopping = FALSE
  /\ active_connections = {}
  /\ ws_pending_requests = {}

\* every client answers with the same text
AskInit ==
  /\ AskStart
  /\ answer = [c \in Clients |-> "text"]

\* every client answers with a text of its own
RaceInit ==
  /\ AskStart
  /\ answer = [c \in Clients |-> c]

\* _handle_client, line 36: a client connects to the running server
ClientConnect(c) ==
  /\ _websocket_server
  /\ c \notin _connected_clients
  /\ _connected_clients' = _connected_clients \cup {c}
  /\ UNCHANGED <<nonAskVars, wsVars, future_result, wait_for_impl, answer,
                 _websocket_server, _pending_requests,
                 pending_requests, future, request, ask, stopping>>

\* _handle_client, lines 62-67: the connection of c ends
ClientDisconnect(c) ==
  /\ c \in _connected_clients
  /\ _connected_clients' = _connected_clients \ {c}
  /\ UNCHANGED <<nonAskVars, wsVars, future_result, wait_for_impl, answer,
                 _websocket_server, _pending_requests,
                 pending_requests, future, request, ask, stopping>>

\* Future.set_result(response): InvalidStateError on a future that is done
set_result(F, R, request_id, response) ==
  IF done(F[request_id])
  THEN [F |-> F, R |-> R, exc |-> "InvalidStateError"]
  ELSE [F |-> [F EXCEPT ![request_id] = "result"],
        R |-> [R EXCEPT ![request_id] = response], exc |-> "none"]

\* an answer that is handed to the future of request_id whether or not the
\* id is registered
Resolve_Unregistered(registry, F, R, request_id, response) ==
  IF request_id \in DOMAIN F
  THEN LET s == IF done(F[request_id])
                THEN [F |-> F, R |-> R, exc |-> "none"]
                ELSE set_result(F, R, request_id, response)
       IN [registry |-> registry \ {request_id}, F |-> s.F, R |-> s.R,
           exc |-> s.exc]
  ELSE [registry |-> registry, F |-> F, R |-> R, exc |-> "none"]

\* an answer that overwrites what the future holds and keeps the entry
Resolve_KeepEntry(registry, F, R, request_id, response) ==
  IF request_id \in registry
  THEN [registry |-> registry,
        F |-> [F EXCEPT ![request_id] = "result"],
        R |-> [R EXCEPT ![request_id] = response], exc |-> "none"]
  ELSE [registry |-> registry, F |-> F, R |-> R, exc |-> "none"]

\* lines 48-55 of the controller, 128-132 of the manager and 219-224 of
\* main.py: an answer for request_id arrives at a registry
Resolve(registry, F, R, request_id, response) ==
  IF request_id \in registry
  THEN LET s == IF done(F[request_id])
                THEN [F |-> F, R |-> R, exc |-> "none"]
                ELSE set_result(F, R, request_id, response)
       IN [registry |-> registry \ {request_id}, F |-> s.F, R |-> s.R,
           exc |-> s.exc]
  ELSE [registry |-> registry, F |-> F, R |-> R, exc |-> "none"]

\* _handle_client, lines 39-61: c sends an "input_response" message
HandleClientMessage(c, request_id) ==
  /\ c \in _connected_clients
  /\ \E r \in {Resolve(_pending_requests, future, future_result, request_id,
                         answer[c])} :
       /\ _pending_requests' = r.registry
       /\ future' = r.F
       /\ future_result' = r.R
  /\ UNCHANGED <<nonAskVars, wsVars, wait_for_impl, answer, _websocket_server,
                 _connected_clients, pending_requests, request, ask, stopping>>

\* ConnectionManager.process_external_message for a "user_input_response"
ProcessExternalMessage(request_id) ==
  /\ \E r \in {Resolve(pending_requests, future, future_result, request_id,
                         "external")} :
       /\ pending_requests' = r.registry
       /\ future' = r.F
       /\ future_result' = r.R
  /\ UNCHANGED <<nonAskVars, wsVars, wait_for_impl, answer, _websocket_server,
                 _connected_clients, _pending_requests, request, ask, stopping>>

\* get_human_in_loop up to its first suspension after the registration:
\* the first client.send of the broadcast, or wait_for when no client is
\* connected.  A server that fails to start raises before anything is
\* registered and changes nothing.
GetHumanInLoop(t) ==
  /\ ask[t].pc = "idle"
  /\ Len(future) < MaxRequests
  /\ _websocket_server' = TRUE
  /\ future' = Append(future, "pending")
  /\ request' = Append(request, NewRequest("controller"))
  /\ future_result' = Append(future_result, "none")
  /\ _pending_requests' = _pending_requests \cup {Len(future) + 1}
  /\ IF _connected_clients = {}
     THEN ask' = [ask EXCEPT ![t] =
                    [AskIdle EXCEPT !.pc = "waiting", !.via = "controller",
                                    !.rid = Len(future) + 1, !.timer = "armed"]]
     ELSE \E c \in _connected_clients :
            ask' = [ask EXCEPT ![t] =
                      [AskIdle EXCEPT !.pc = "sending", !.via = "controller",
                                      !.rid = Len(future) + 1,
                                      !.size = Cardinality(_connected_clients),
                                      !.visited = {c}, !.cur = c]]
  /\ UNCHANGED <<nonAskVars, wsVars, wait_for_impl, answer, _connected_clients,
                 pending_requests, stopping>>

\* _broadcast_to_clients resumed after "await client.send": the send returned
\* or raised, and the for statement asks the set iterator for the next client
SendReturns(t, raises) ==
  /\ ask[t].pc = "sending"
  /\ LET a == ask[t]
         failed == IF raises THEN a.failed \cup {a.cur} ELSE a.failed
         rest == _connected_clients \ a.visited
     IN IF Cardinality(_connected_clients) # a.size
        THEN \* RuntimeError: Set changed size during iteration, which
             \* lines 174-178 turn into RuntimeError("Failed to get ...")
             /\ request' = [request EXCEPT ![a.rid].outcome = "RuntimeError"]
             /\ ask' = [ask EXCEPT ![t] = AskIdle]
             /\ UNCHANGED _connected_clients
        ELSE \/ /\ rest # {}
                /\ \E c \in rest :
                     ask' = [ask EXCEPT ![t].visited = a.visited \cup {c},
                                        ![t].cur = c, ![t].failed = failed]
                /\ UNCHANGED <<_connected_clients, request>>
             \/ /\ rest = {} \/ ~(a.visited \subseteq _connected_clients)
                /\ _connected_clients' = _connected_clients \ failed
                /\ ask' = [ask EXCEPT ![t] =
                             [AskIdle EXCEPT !.pc = "waiting", !.via = a.via,
                                             !.rid = a.rid, !.timer = "armed"]]
                /\ UNCHANGED request
  /\ UNCHANGED <<nonAskVars, wsVars, future_result, wait_for_impl, answer,
                 _websocket_server, _pending_requests,
                 pending_requests, future, stopping>>

\* ConnectionManager.request_user_input called with a session_id that has
\* no connection (lines 195-204 send nothing), up to wait_for
RequestUserInput(t) ==
  /\ ask[t].pc = "idle"
  /\ Len(future) < MaxRequests
  /\ future' = Append(future, "pending")
  /\ request' = Append(request, NewRequest("manager"))
  /\ future_result' = Append(future_result, "none")
  /\ pending_requests' = pending_requests \cup {Len(future) + 1}
  /\ ask' = [ask EXCEPT ![t] =
               [AskIdle EXCEPT !.pc = "waiting", !.via = "manager",
                               !.rid = Len(future) + 1, !.timer = "armed"]]
  /\ UNCHANGED <<nonAskVars, wsVars, wait_for_impl, answer, _websocket_server,
                 _connected_clients, _pending_requests, stopping>>

\* the timeout of wait_for elapses
TimerFires(t) ==
  /\ ask[t].pc = "waiting"
  /\ ask[t].timer = "armed"
  /\ ask' = [ask EXCEPT ![t].timer = "fired"]
  /\ future' = IF wait_for_impl = "timeout_scope" /\ ~done(future[ask[t].rid])
               THEN [future EXCEPT ![ask[t].rid] = "cancelled"]
               ELSE future
  /\ UNCHANGED <<nonAskVars, wsVars, future_result, wait_for_impl, answer,
                 _websocket_server, _connected_clients,
                 _pending_requests, pending_requests, request, stopping>>

\* whether wait_for raises TimeoutError when the caller resumes
TimedOut(impl, a, f) ==
  IF impl = "release_waiter" THEN ~done(f) ELSE a.timer = "fired"

\* what the caller sees when wait_for hands over the future's state
FutureOutcome(f) ==
  IF f = "result" THEN "value" ELSE "CancelledError"

\* the registry without request_id when the request came through via
Forget(registry, via, a) ==
  IF a.via = via THEN registry \ {a.rid} ELSE registry

\* the caller resumes from wait_for: lines 165-173 of the controller,
\* 209-214 of the manager, 193-206 of main.py
WaitReturns(t) ==
  /\ ask[t].pc = "waiting"
  /\ ask[t].timer = "fired" \/ done(future[ask[t].rid])
  /\ LET a == ask[t] IN
       IF TimedOut(wait_for_impl, a, future[a.rid])
       THEN /\ future' = [future EXCEPT ![a.rid] =
                            IF done(@) THEN @ ELSE "cancelled"]
            /\ _pending_requests' = Forget(_pending_requests, "controller", a)
            /\ pending_requests' = Forget(pending_requests, "manager", a)
            /\ ws_pending_requests' = Forget(ws_pending_requests, "ws", a)
            /\ request' = [request EXCEPT
                             ![a.rid].expired = TRUE,
                             ![a.rid].outcome = IF a.via = "controller"
                                                THEN "TimeoutError"
                                                ELSE "value",
                             ![a.rid].got = IF a.via = "controller"
                                            THEN "none" ELSE "empty"]
       ELSE /\ request' = [request EXCEPT
                             ![a.rid].outcome = FutureOutcome(future[a.rid]),
                             ![a.rid].got = IF future[a.rid] = "result"
                                            THEN future_result[a.rid]
                                            ELSE "none"]
            /\ ws_pending_requests' =
                 IF FutureOutcome(future[a.rid]) = "CancelledError"
                 THEN Forget(ws_pending_requests, "ws", a)
                 ELSE ws_pending_requests
            /\ UNCHANGED <<future, _pending_requests, pending_requests>>
  /\ ask' = [ask EXCEPT ![t] = AskIdle]
  /\ UNCHANGED <<nonAskVars, active_connections, future_result, wait_for_impl,
                 answer,
                 _websocket_server, _connected_clients, stopping>>

\* stop_websocket_server up to its first suspension (client.close() or
\* wait_closed()): lines 185-189
StopWebsocketServer ==
  /\ ~stopping
  /\ _websocket_server
  /\ future' = [i \in DOMAIN future |->
                  IF i \in _pending_requests /\ ~done(future[i])
                  THEN "exception" ELSE future[i]]
  /\ stopping' = TRUE
  /\ UNCHANGED <<nonAskVars, wsVars, future_result, wait_for_impl, answer,
                 _websocket_server, _connected_clients,
                 _pending_requests, pending_requests, request, ask>>

\* stop_websocket_server after wait_closed(): lines 201-203
StopResumes ==
  /\ stopping
  /\ stopping' = FALSE
  /\ _websocket_server' = FALSE
  /\ _connected_clients' = {}
  /\ _pending_requests' = {}
  /\ UNCHANGED <<nonAskVars, wsVars, future_result, wait_for_impl, answer,
                 pending_requests, future, request, ask>>

(***************************************************************************)
(* main.py's WebSocketManager, the ws_manager global: one websocket per    *)
(* session and a registry of its own.                                      *)
(***************************************************************************)
Sessions == {"s1"}

\* WebSocketManager.connect, lines 94-103
WsConnect(session_id) ==
  /\ session_id \notin active_connections
  /\ active_connections' = active_connections \cup {session_id}
  /\ UNCHANGED <<nonAskVars, ws_pending_requests, future_result, wait_for_impl,
                 answer,
                 _websocket_server, _connected_clients, _pending_requests,
                 pending_requests, future, request, ask, stopping>>

\* the requests that disconnect cancels and removes, lines 111-118
RequestsToRemove(registry, F, session_id) ==
  {req_id \in registry : ~done(F[req_id])}

\* WebSocketManager.disconnect, lines 105-121; every request of the registry
\* carries the one session id as future.session_id
Disconnect(session_id) ==
  IF session_id \in active_connections
  THEN LET gone == RequestsToRemove(ws_pending_requests, future, session_id)
       IN [connections |-> active_connections \ {session_id},
           registry |-> ws_pending_requests \ gone,
           F |-> [i \in DOMAIN future |->
                    IF i \in gone THEN "cancelled" ELSE future[i]]]
  ELSE [connections |-> active_connections,
        registry |-> ws_pending_requests, F |-> future]

\* websocket_endpoint's finally clause, line 489
WsDisconnect(session_id) ==
  /\ session_id \in active_connections
  /\ \E d \in {Disconnect(session_id)} :
       /\ active_connections' = d.connections
       /\ ws_pending_requests' = d.registry
       /\ future' = d.F
  /\ UNCHANGED <<nonAskVars, future_result, wait_for_impl, answer,
                 _websocket_server,
                 _connected_clients, _pending_requests, pending_requests,
                 request, ask, stopping>>

\* WebSocketManager.request_user_input up to "await ... send_json", lines
\* 160-184 and 123-126; without a connection it raises ValueError at line
\* 165 and changes nothing
WsRequestUserInput(t, session_id) ==
  /\ ask[t].pc = "idle"
  /\ Len(future) < MaxRequests
  /\ session_id \in active_connections
  /\ future' = Append(future, "pending")
  /\ future_result' = Append(future_result, "none")
  /\ request' = Append(request, NewRequest("ws"))
  /\ ws_pending_requests' = ws_pending_requests \cup {Len(future) + 1}
  /\ ask' = [ask EXCEPT ![t] =
               [AskIdle EXCEPT !.pc = "ws_sending", !.via = "ws",
                               !.rid = Len(future) + 1, !.cur = session_id]]
  /\ UNCHANGED <<nonAskVars, active_connections, wait_for_impl, answer,
                 _websocket_server, _connected_clients, _pending_requests,
                 pending_requests, stopping>>

\* send_message resumed after send_json, lines 126-139 (a send that raised
\* disconnects the session), then request_user_input up to wait_for
WsSendReturns(t, raises) ==
  /\ ask[t].pc = "ws_sending"
  /\ \E d \in {IF raises THEN Disconnect(ask[t].cur)
               ELSE [connections |-> active_connections,
                     registry |-> ws_pending_requests, F |-> future]} :
       /\ active_connections' = d.connections
       /\ ws_pending_requests' = d.registry
       /\ future' = d.F
  /\ ask' = [ask EXCEPT ![t] =
               [AskIdle EXCEPT !.pc = "waiting", !.via = "ws",
                               !.rid = ask[t].rid, !.timer = "armed"]]
  /\ UNCHANGED <<nonAskVars, future_result, wait_for_impl, answer,
                 _websocket_server,
                 _connected_clients, _pending_requests, pending_requests,
                 request, stopping>>

\* WebSocketManager.resolve_request, lines 216-229, called for a
\* "user_input" message (line 412) and by POST /user-input (line 507)
ResolveRequest(request_id) ==
  /\ \E r \in {Resolve(ws_pending_requests, future, future_result, request_id,
                       "ws")} :
       /\ ws_pending_requests' = r.registry
       /\ future' = r.F
       /\ future_result' = r.R
  /\ UNCHANGED <<nonAskVars, active_connections, wait_for_impl, answer,
                 _websocket_server, _connected_clients, _pending_requests,
                 pending_requests, request, ask, stopping>>

\* the controller's server, its clients and the callers of
\* get_human_in_loop
ControllerNext ==
  \/ \E c \in Clients : ClientConnect(c)
  \/ \E c \in Clients : ClientDisconnect(c)
  \/ \E c \in Clients, request_id \in RequestIds :
       HandleClientMessage(c, request_id)
  \/ \E t \in Tasks : GetHumanInLoop(t)
  \/ \E t \in Tasks, raises \in BOOLEAN : SendReturns(t, raises)
  \/ \E t \in Tasks : TimerFires(t)
  \/ \E t \in Tasks : WaitReturns(t)
  \/ StopWebsocketServer
  \/ StopResumes

\* the process main.py starts: the controller, and the /ws endpoint and
\* POST /user-input, which hand every answer to ws_manager.resolve_request;
\* nothing in the repository calls ws_manager.request_user_input
MainNext ==
  \/ ControllerNext
  \/ \E request_id \in RequestIds : ResolveRequest(request_id)

\* ConnectionManager and the callers of its request_user_input
ManagerNext ==
  \/ \E request_id \in RequestIds : ProcessExternalMessage(request_id)
  \/ \E t \in Tasks : RequestUserInput(t)

AskNext == ControllerNext \/ ManagerNext

\* main.py's manager and the callers of its request_user_input
WsNext ==
  \/ \E session_id \in Sessions : WsConnect(session_id)
  \/ \E session_id \in Sessions : WsDisconnect(session_id)
  \/ \E t \in Tasks, session_id \in Sessions : WsRequestUserInput(t, session_id)
  \/ \E t \in Tasks, raises \in BOOLEAN : WsSendReturns(t, raises)
  \/ \E request_id \in RequestIds : ResolveRequest(request_id)
  \/ \E t \in Tasks : TimerFires(t)
  \/ \E t \in Tasks : WaitReturns(t)

(***************************************************************************)
(* Workflow state and Router._create_routing_function.routing_function.    *)
(* A dict keyed by stage name is a function whose domain is its key set;   *)
(* a sub-state in send_list is a reference into heap.                      *)
(***************************************************************************)
\* langgraph's END
END == "__end__"

\* the stages whose routing functions the workflow registers
Stages == {"thinker", "executor"}

\* the names a stage can route to
Targets == {"researcher", "executor", END}

\* the InternalState objects that exist
Refs == {"o1", "o2"}

\* lists of at most n elements of S
SeqUpTo(S, n) == UNION {[1..k -> S] : k \in 0..n}

EmptyDict == [k \in {} |-> <<>>]

\* d.get(k, default)
Get(d, k, default) == IF k \in DOMAIN d THEN d[k] ELSE default

\* d[k] = v
DictSet(d, k, v) == [x \in DOMAIN d \cup {k} |-> IF x = k THEN v ELSE d[x]]

RouteConfig(from_node, conditional_nodes, sends, send_to) ==
  [from_node |-> from_node, conditional_nodes |-> conditional_nodes,
   send |-> sends, send_to |-> send_to]

\* mutant: every declared node counts as selected
In_Always(node, selected_nodes) == TRUE

\* "node in selected_nodes" on a list
In(node, selected_nodes) ==
  \E i \in DOMAIN selected_nodes : selected_nodes[i] = node

\* lines 134-137: the generator that extends next_nodes
RECURSIVE Select(_, _)
Select(conditional_nodes, selected_nodes) ==
  IF conditional_nodes = <<>>
  THEN <<>>
  ELSE IF In(Head(conditional_nodes), selected_nodes)
       THEN <<Head(conditional_nodes)>>
              \o Select(Tail(conditional_nodes), selected_nodes)
       ELSE Select(Tail(conditional_nodes), selected_nodes)

\* dispatches built from the last entry to the first
Sends_Reversed(send_to, entries) ==
  [i \in DOMAIN entries |->
     [node |-> send_to, internal_state |-> entries[Len(entries) + 1 - i]]]

\* lines 123-129: one Send per entry, each carrying the entry itself
Sends(send_to, entries) ==
  [i \in DOMAIN entries |-> [node |-> send_to, internal_state |-> entries[i]]]

NoResult == [from_node |-> "none", exc |-> "none", next_nodes |-> <<>>,
             sends |-> <<>>]

\* routing_function(state) of the stage from_node
routing_function(rc, rt, sl, from_node) ==
  IF from_node \notin DOMAIN rc
  THEN \* line 120, outside the try
       [NoResult EXCEPT !.from_node = from_node, !.exc = "KeyError"]
  ELSE LET config == rc[from_node] IN
       IF config.send
       THEN [NoResult EXCEPT
               !.from_node = from_node,
               !.sends = Sends(config.send_to, Get(sl, from_node, <<>>))]
       ELSE [NoResult EXCEPT
               !.from_node = from_node,
               !.next_nodes = Select(config.conditional_nodes,
                                     Get(rt, from_node, <<>>))]

\* a workflow state in which the stage "thinker" has, or has not, declared
\* its configuration, its choice and its fan-out list
StateInit ==
  /\ route_config \in
       {EmptyDict} \cup
       {DictSet(EmptyDict, "thinker", RouteConfig("thinker", cn, sd, "executor")) :
          cn \in SeqUpTo(Targets, MaxRoute), sd \in BOOLEAN}
  /\ routes \in {EmptyDict} \cup
                {DictSet(EmptyDict, "thinker", sel) :
                   sel \in SeqUpTo(Targets, MaxRoute)}
  /\ send_list \in {EmptyDict} \cup
                   {DictSet(EmptyDict, "thinker", l) : l \in SeqUpTo(Refs, MaxSend)}
  /\ heap = [o \in Refs |-> 0]
  /\ routed = NoResult

\* a routing function that takes the entries it dispatches out of send_list
CallRoutingFunction_Consumes(from_node) ==
  /\ routed' = routing_function(route_config, routes, send_list, from_node)
  /\ send_list' = [k \in DOMAIN send_list \ {from_node} |-> send_list[k]]
  /\ UNCHANGED <<route_config, routes, heap>>
  /\ UNCHANGED <<poolVars, task, askVars, execVars>>

\* the graph runtime calls the routing function registered for from_node
CallRoutingFunction(from_node) ==
  /\ routed' = routing_function(route_config, routes, send_list, from_node)
  /\ UNCHANGED <<route_config, routes, send_list, heap>>
  /\ UNCHANGED <<poolVars, task, askVars, execVars>>

\* the stage that received the i-th dispatch writes into its sub-state
SiblingMutates(i) ==
  /\ i \in DOMAIN routed.sends
  /\ heap[routed.sends[i].internal_state] = 0
  /\ heap' = [heap EXCEPT ![routed.sends[i].internal_state] = 1]
  /\ UNCHANGED <<route_config, routes, send_list, routed>>
  /\ UNCHANGED <<poolVars, task, askVars, execVars>>

RouteNext ==
  \/ \E from_node \in Stages : CallRoutingFunction(from_node)
  \/ \E i \in 1..MaxSend : SiblingMutates(i)

(***************************************************************************)
(* AutoAgent.executor_node.  The coroutine suspends at the LLM call and at *)
(* run_task; the while test and the bookkeeping run without suspending.    *)
(***************************************************************************)
max_failures == 2

\* mutant: the step ceiling one too high
LoopTest_OffByOne(st, fl, max_steps) ==
  st <= max_steps + 1 /\ fl <= max_failures

\* line 285
LoopTest(st, fl, max_steps) == st <= max_steps /\ fl <= max_failures

\* what thinker_node leaves in the state for an ACTION task (lines 211-215)
AfterThinker ==
  /\ route_config = DictSet(EmptyDict, "thinker",
                            RouteConfig("thinker", <<"executor">>, FALSE, "none"))
  /\ routes = DictSet(EmptyDict, "thinker", <<"executor">>)
  /\ send_list = EmptyDict
  /\ heap = [o \in Refs |-> 0]
  /\ routed = NoResult

\* executor_node entered: lines 280-285, up to the first LLM call
ExecInit ==
  /\ _max_steps \in 0..MaxStepsBound
  /\ step = 0
  /\ failure = 0
  /\ results = "none"
  /\ executor = [pc |-> "llm", outcome |-> "none", why |-> "none"]
  /\ automation_errors = 0
  /\ run = [pc |-> "ainvoke", context_id |-> 1]

\* lines 299-304 and 349-354: route the executor to END
RouteToEnd ==
  /\ routes' = DictSet(routes, "executor", <<END>>)
  /\ route_config' = DictSet(route_config, "executor",
                             RouteConfig("executor", <<END>>, FALSE, "none"))

\* get_structured_response returns (lines 286-313) or raises (line 356)
LlmReturns(raises, user_task_completed, current_task_completed) ==
  /\ executor.pc = "llm"
  /\ IF raises
     THEN /\ executor' = [pc |-> "end", outcome |-> "RAISED", why |-> "llm"]
          /\ UNCHANGED <<failure, results, routes, route_config>>
     ELSE IF user_task_completed
          THEN /\ results' = "final_response"
               /\ RouteToEnd
               /\ executor' = [pc |-> "end", outcome |-> "DONE",
                                why |-> "completed"]
               /\ UNCHANGED failure
          ELSE /\ failure' = IF current_task_completed THEN failure
                             ELSE failure + 1
               /\ executor' = [pc |-> "run_task", outcome |-> "none",
                                why |-> "none"]
               /\ UNCHANGED <<results, routes, route_config>>
  /\ UNCHANGED <<_max_steps, step, automation_errors, run, send_list, heap,
                 routed>>
  /\ UNCHANGED <<poolVars, task, askVars, llmVars, mainVars,
                 session>>

\* create_context, reached from run_task through create_agent and get_context
\* (Browser_Agent.py lines 437, 341, 250-253), finds the pool exhausted
PoolExhausted(cid) ==
  /\ ContextMissing(_context_to_browser, cid)
  /\ create_context(_browsers, _context_to_browser, _max_browsers,
                    _max_contexts_per_browser, _on_step_screenshot, cid,
                    serial + 1).why = "exhausted"

\* BrowserAgent.run_task returns (lines 329-340, then the while test) or
\* raises its RuntimeError (lines 324-327 and 342-347, then lines 349-354).
\* run_task gets the context of context_id from the pool, creating it when
\* it is missing, before the browser agent runs; raises: the browser agent's
\* run raises
RunTaskReturns(raises) ==
  /\ executor.pc = "run_task"
  /\ GetContextStep(run.context_id)
  /\ IF lastOp'.exc # "none" \/ lastOp'.ret = None \/ raises
     THEN /\ automation_errors' = automation_errors + 1
          /\ RouteToEnd
          /\ executor' = [pc |-> "end", outcome |-> "FAILED",
                           why |-> IF PoolExhausted(run.context_id)
                                   THEN "pool" ELSE "run_task"]
          /\ UNCHANGED step
     ELSE /\ step' = step + 1
          /\ UNCHANGED automation_errors
          /\ IF LoopTest(step + 1, failure, _max_steps)
             THEN /\ executor' = [pc |-> "llm", outcome |-> "none",
                                  why |-> "none"]
                  /\ UNCHANGED <<routes, route_config>>
             ELSE /\ RouteToEnd
                  /\ executor' = [pc |-> "end", outcome |-> "FAILED",
                                  why |-> "ceiling"]
  /\ UNCHANGED <<_max_steps, failure, results, run, send_list, heap, routed>>
  /\ UNCHANGED <<task, askVars, llmVars, mainVars,
                 session>>

\* the graph runtime routes from the executor after it returned
RouteFromExecutor ==
  /\ executor.pc = "end"
  /\ executor.outcome # "RAISED"
  /\ run.pc = "ainvoke"
  /\ routed' = routing_function(route_config, routes, send_list, "executor")
  /\ UNCHANGED <<route_config, routes, send_list, heap, execVars>>
  /\ UNCHANGED <<poolVars, task, askVars>>

\* AutoAgent.run after workflow.ainvoke (form_agent.py lines 378-389): an
\* exception of a node or of the routing function is raised again (lines
\* 380-381, 387-389); when the graph reached END the context of context_id
\* is closed (line 384) and the final state returned (line 385).
\* raises: context.close() raises, which close_context swallows
RunReturns(raises) ==
  /\ run.pc = "ainvoke"
  /\ executor.pc = "end"
  /\ executor.outcome = "RAISED" \/ routed.from_node = "executor"
  /\ IF executor.outcome = "RAISED" \/ routed.exc # "none"
     THEN /\ run' = [run EXCEPT !.pc = "raised"]
          /\ UNCHANGED poolVars
     ELSE /\ CloseContextStep(run.context_id, raises)
          /\ run' = [run EXCEPT !.pc = "returned"]
  /\ UNCHANGED <<_max_steps, step, failure, results, executor,
                 automation_errors>>
  /\ UNCHANGED <<stateVars, task, askVars, llmVars, mainVars,
                 session>>

ExecNext ==
  \/ \E raises \in BOOLEAN, user_task_completed \in BOOLEAN,
        current_task_completed \in BOOLEAN :
       LlmReturns(raises, user_task_completed, current_task_completed)
  \/ \E raises \in BOOLEAN : RunTaskReturns(raises)
  \/ RouteFromExecutor
  \/ \E raises \in BOOLEAN : RunReturns(raises)

\* the other workflows use the handler they share with this one
OtherWorkflows ==
  \E cid \in CallerIds \ {run.context_id} :
    \/ CallGetContext(cid)
    \/ CallCloseContext(cid, FALSE)

RunNext == ExecNext \/ OtherWorkflows

\* the stages _build_workflow adds to the graph (form_agent.py lines 167-169)
Registered == {"thinker", "executor", "human_input"}

\* the values ThinkerOutputStruct allows for task_type (lines 38-40)
TaskTypes == {"ACTION", "RESEARCH"}

\* the workflow state handed to ainvoke: no stage has run
BeforeThinker ==
  /\ route_config = EmptyDict
  /\ routes = EmptyDict
  /\ send_list = EmptyDict
  /\ heap = [o \in Refs |-> 0]
  /\ routed = NoResult

\* the executor stage has not been entered
NotEntered == [pc |-> "wait", outcome |-> "none", why |-> "none"]

\* thinker_node returns (lines 193-239) or raises (lines 237-245, then
\* ainvoke and run raise it again); raises: get_structured_response raises
ThinkerReturns(raises, task_type) ==
  /\ run.pc = "ainvoke"
  /\ executor = NotEntered
  /\ "thinker" \notin DOMAIN route_config
  /\ IF raises
     THEN /\ run' = [run EXCEPT !.pc = "raised"]
          /\ UNCHANGED <<routes, route_config>>
     ELSE LET to == IF task_type = "ACTION" THEN <<"executor">>
                    ELSE <<"researcher">> IN
          /\ routes' = DictSet(routes, "thinker", to)
          /\ route_config' = DictSet(route_config, "thinker",
                                     RouteConfig("thinker", to, FALSE, "none"))
          /\ UNCHANGED run
  /\ UNCHANGED <<_max_steps, step, failure, results, executor,
                 automation_errors, send_list, heap, routed>>
  /\ UNCHANGED <<poolVars, task, askVars, llmVars, mainVars,
                 session>>

\* the graph runtime routes from the thinker after it returned
RouteFromThinker ==
  /\ run.pc = "ainvoke"
  /\ executor = NotEntered
  /\ "thinker" \in DOMAIN route_config
  /\ routed.from_node = "none"
  /\ routed' = routing_function(route_config, routes, send_list, "thinker")
  /\ UNCHANGED <<route_config, routes, send_list, heap, execVars>>
  /\ UNCHANGED <<poolVars, task, askVars>>

\* the graph runtime enters executor_node when routing named it
ExecutorStarts ==
  /\ run.pc = "ainvoke"
  /\ executor = NotEntered
  /\ routed.from_node = "thinker"
  /\ routed.exc = "none"
  /\ In("executor", routed.next_nodes)
  /\ executor' = [pc |-> "llm", outcome |-> "none", why |-> "none"]
  /\ UNCHANGED <<_max_steps, step, failure, results, automation_errors, run>>
  /\ UNCHANGED <<stateVars, poolVars, task, askVars, llmVars, mainVars,
                 session>>

\* one run of the workflow from its entry point
FormWorkflowNext ==
  \/ \E raises \in BOOLEAN, task_type \in TaskTypes :
       ThinkerReturns(raises, task_type)
  \/ RouteFromThinker
  \/ ExecutorStarts
  \/ ExecNext

(***************************************************************************)
(* AutoAgent of main_agent.py.  executor_node suspends at the model call   *)
(* that turns the resumption hint into instructions, at run_task and at    *)
(* the model call that decides what comes next; human_node suspends in its *)
(* sleep.  main.pc is the suspension the workflow is at.                   *)
(***************************************************************************)
\* AutoAgentState as run builds it (lines 55-70, 693-697), with the task
\* thinker_node appended, at the executor's first suspension: state.waiting
\* is false, so lines 597-622 take the task as the instructions
MainStart == [pc |-> "run_task", step |-> 0, waiting |-> FALSE,
              question |-> "none", next_step |-> "none",
              process_history |-> <<>>, instructions |-> "task",
              input |-> {}, results |-> "none", outcome |-> "none",
              context_id |-> 1]

\* no agent task has been created and the application is serving
NoSession == [pc |-> "none", must_cancel |-> FALSE, lifespan |-> "serving"]

MainAtRest ==
  /\ _loop_steps = 0
  /\ main = MainStart
  /\ session = NoSession

MainInit ==
  /\ _loop_steps \in 0..MaxStepsBound
  /\ main = MainStart
  /\ session = NoSession

\* executor_node entered (lines 591-622): where it first suspends
EnterExecutor(m) ==
  IF m.waiting /\ m.step < _loop_steps
  THEN [m EXCEPT !.pc = "repeat_llm"]
  ELSE [m EXCEPT !.pc = "run_task", !.instructions = "task"]

\* an exception inside executor_node is raised again (lines 673-678)
ExecutorRaises(m) == [m EXCEPT !.pc = "end", !.outcome = "RAISED"]

\* the model turned next_step and the user's input into instructions
\* (lines 603-614), or raised
RepeatLlmReturns(raises) ==
  /\ main.pc = "repeat_llm"
  /\ main' = IF raises THEN ExecutorRaises(main)
             ELSE [main EXCEPT !.pc = "run_task", !.instructions = "from_hint"]
  /\ UNCHANGED <<_loop_steps, _max_steps, step, failure, results, executor,
                 automation_errors, run, llmVars, session>>
  /\ UNCHANGED <<poolVars, task, askVars, stateVars>>

\* BrowserAgent.run_task returned or raised (lines 624-633); it gets the
\* context of context_id from the pool first.  raises: the browser agent's
\* run raises
MainRunTaskReturns(raises) ==
  /\ main.pc = "run_task"
  /\ GetContextStep(main.context_id)
  /\ main' = IF lastOp'.exc # "none" \/ lastOp'.ret = None \/ raises
             THEN ExecutorRaises(main)
             ELSE [main EXCEPT !.pc = "exe_llm"]
  /\ UNCHANGED <<_loop_steps, _max_steps, step, failure, results, executor,
                 automation_errors, run, llmVars, session>>
  /\ UNCHANGED <<task, askVars, stateVars>>

\* the model decided what comes next (lines 637-671), or raised.
\* interrup: next_action.interruption_context.interrup
NextActionReturns(raises, interrup) ==
  /\ main.pc = "exe_llm"
  /\ IF raises
     THEN /\ main' = ExecutorRaises(main)
          /\ UNCHANGED <<routes, route_config>>
     ELSE IF interrup
     THEN /\ main' = [main EXCEPT
                        !.process_history = Append(@, main.instructions),
                        !.next_step = "next_step",
                        !.question = "question",
                        !.waiting = TRUE,
                        !.step = @ + 1,
                        !.pc = "route"]
          /\ routes' = DictSet(routes, "executor", <<"human_input">>)
          /\ route_config' =
               DictSet(route_config, "executor",
                       RouteConfig("executor", <<"humman_input">>, FALSE,
                                   "none"))
     ELSE /\ main' = [main EXCEPT !.results = "final_response",
                                  !.step = @ + 1, !.pc = "route"]
          /\ RouteToEnd
  /\ UNCHANGED <<_loop_steps, _max_steps, step, failure, results, executor,
                 automation_errors, run, llmVars, session>>
  /\ UNCHANGED <<poolVars, task, askVars, send_list, heap, routed>>

\* the stage the graph runs after the executor (lines 136-138): the one
\* the executor's routing function resolves; with none resolved, or END,
\* the graph is over and run returns the state (lines 699-706)
AfterExecutor(m, r) ==
  IF r.exc # "none" THEN ExecutorRaises(m)
  ELSE IF r.next_nodes = <<"human_input">> THEN [m EXCEPT !.pc = "human_input"]
  ELSE [m EXCEPT !.pc = "end", !.outcome = "RETURNED"]

MainRouteFromExecutor ==
  /\ main.pc = "route"
  /\ \E r \in {routing_function(route_config, routes, send_list, "executor")} :
       /\ routed' = r
       /\ main' = AfterExecutor(main, r)
  /\ UNCHANGED <<_loop_steps, _max_steps, step, failure, results, executor,
                 automation_errors, run, llmVars, session>>
  /\ UNCHANGED <<poolVars, task, askVars, route_config, routes, send_list,
                 heap>>

\* human_node (lines 567-577) is over, and the edge of line 138 leads back
\* to the executor
HumanNode ==
  /\ main.pc = "human_input"
  /\ main' = EnterExecutor([main EXCEPT !.input = @ \cup {"username"}])
  /\ UNCHANGED <<_loop_steps, _max_steps, step, failure, results, executor,
                 automation_errors, run, llmVars, session>>
  /\ UNCHANGED <<poolVars, task, askVars, stateVars>>

\* the other workflows use the handler they share with this one
MainOtherWorkflows ==
  \E cid \in CallerIds \ {main.context_id} :
    \/ CallGetContext(cid)
    \/ CallCloseContext(cid, FALSE)

\* the executor's first pass: state.waiting is false
MainExecutorNext ==
  \/ \E raises \in BOOLEAN : MainRunTaskReturns(raises)
  \/ \E raises \in BOOLEAN, interrup \in BOOLEAN :
       NextActionReturns(raises, interrup)
  \/ MainRouteFromExecutor

MainAgentNext == MainExecutorNext \/ MainOtherWorkflows

\* agent_setup.py: the task of another client session is over (the finally
\* clause of run_agent_task, lines 170-179) or its session is cleaned up
\* (cleanup_session, lines 181-188).  Both call close_all on
\* browser_agents[session_id]; BrowserAgentHandler.__new__ (Browser_Agent.py
\* lines 50-54) hands every session the one instance of the process, so
\* that is the handler this workflow runs on
OtherSessionEnds ==
  \E failObjs \in SUBSET AllObjects(_browsers),
     failBrowsers \in SUBSET BrowserIds(_browsers) :
    CallCloseAll(failObjs, failBrowsers)

SessionsNext == MainAgentNext \/ OtherSessionEnds

(***************************************************************************)
(* The application of main_app.py: the agent task of a session             *)
(* (run_agent_task), the requests for user input of ConnectionManager, and *)
(* the end of the lifespan.  task.cancel() marks the task; the             *)
(* CancelledError is raised in it when the event loop next runs it, at     *)
(* the await it is suspended in.                                           *)
(***************************************************************************)
\* context_id = session_id (agent_setup.py line 133)
SessionId == 1

Serving == session.lifespan = "serving"

\* the task is not done
Running == session.pc \in {"run", "cleaning"}

\* websocket_endpoint creates the agent task and registers it (main_app.py
\* lines 88-91); run_agent_task runs up to "await auto_agent.run"
CreateAgentTask ==
  /\ Serving
  /\ session.pc = "none"
  /\ session' = [session EXCEPT !.pc = "run"]
  /\ UNCHANGED <<poolVars, task, askVars, stateVars, workflowVars>>

\* the workflow of the session asks the handler for its context
SessionGetContext ==
  /\ session.pc = "run"
  /\ ~session.must_cancel
  /\ GetContextStep(SessionId)
  /\ UNCHANGED <<task, askVars, stateVars, workflowVars, session>>

\* auto_agent.run returned or raised (agent_setup.py lines 133-168): the
\* finally clause runs up to its awaits before close_all (lines 172-175)
AgentRunEnds ==
  /\ session.pc = "run"
  /\ ~session.must_cancel
  /\ session' = [session EXCEPT !.pc = "cleaning"]
  /\ UNCHANGED <<poolVars, task, askVars, stateVars, workflowVars>>

\* the delay of line 175 is over: close_all (line 176), and the task ends
DelayEnds(failObjs, failBrowsers) ==
  /\ session.pc = "cleaning"
  /\ ~session.must_cancel
  /\ CloseAllStep(failObjs, failBrowsers)
  /\ session' = [session EXCEPT !.pc = "done"]
  /\ UNCHANGED <<task, askVars, stateVars, workflowVars>>

\* lines 232-234 of ConnectionManager.cleanup: Future.cancel() on every
\* registered future that is not done; the registry keeps its entries
CancelPending(registry, F) ==
  [i \in DOMAIN F |->
     IF i \in registry /\ ~done(F[i]) THEN "cancelled" ELSE F[i]]

\* the lifespan of main_app.py ends (lines 15-16): ConnectionManager.cleanup
\* (websocket_manager.py lines 224-239) cancels the session tasks that are
\* not done and the futures that are not done
Cleanup ==
  /\ Serving
  /\ session' = [session EXCEPT !.lifespan = "stopped",
                                !.must_cancel = Running]
  /\ future' = CancelPending(pending_requests, future)
  /\ UNCHANGED <<poolVars, task, stateVars, workflowVars, wsVars>>
  /\ UNCHANGED <<future_result, wait_for_impl, answer, _websocket_server,
                 _connected_clients, _pending_requests, pending_requests,
                 request, ask, stopping>>

\* the event loop runs the cancelled task: CancelledError is raised at the
\* await it is suspended in.  Inside the try it passes "except Exception"
\* (line 158) and enters the finally clause; inside the finally clause it
\* leaves run_agent_task before line 176
CancelDelivered ==
  /\ session.must_cancel
  /\ session' = [session EXCEPT
                   !.must_cancel = FALSE,
                   !.pc = IF session.pc = "run" THEN "cleaning"
                          ELSE "cancelled"]
  /\ UNCHANGED <<poolVars, task, askVars, stateVars, workflowVars>>

\* main_app.py from startup to the end of its lifespan
AppNext ==
  \/ CreateAgentTask
  \/ SessionGetContext
  \/ AgentRunEnds
  \/ \E failObjs \in SUBSET AllObjects(_browsers),
        failBrowsers \in SUBSET BrowserIds(_browsers) :
       DelayEnds(failObjs, failBrowsers)
  \/ Cleanup
  \/ CancelDelivered
  \/ \E t \in Tasks : Serving /\ RequestUserInput(t)
  \/ \E request_id \in RequestIds :
       Serving /\ ProcessExternalMessage(request_id)
  \/ \E t \in Tasks : TimerFires(t)
  \/ \E t \in Tasks : WaitReturns(t)

\* the state an interruption of the executor's first pass leaves (lines
\* 644-670), at the stage its routes entry names
Interrupted == [MainStart EXCEPT !.pc = "human_input", !.step = 1,
                                 !.waiting = TRUE, !.question = "question",
                                 !.next_step = "next_step",
                                 !.process_history = <<"task">>]

\* the pool after the run_task of that pass created the context
PoolAfterRunTask ==
  LET r == get_context(<<>>, <<>>, 1, 1, TRUE, 1, 1) IN
  /\ _max_browsers = 1
  /\ _max_contexts_per_browser = 1
  /\ _on_step_screenshot = TRUE
  /\ _browsers = r.B
  /\ _context_to_browser = r.C
  /\ serial = 1
  /\ lastOp = [op |-> "get_context", arg |-> 1, exc |-> r.exc,
               why |-> "none", ret |-> r.ret, created |-> r.created,
               after |-> "new", raised |-> {}]
  /\ hist = Void
  /\ task = [t \in Tasks |-> Idle]

HumanInit ==
  /\ _loop_steps \in 0..MaxStepsBound
  /\ main = Interrupted
  /\ session = NoSession
  /\ routes = DictSet(DictSet(EmptyDict, "thinker", <<"executor">>),
                      "executor", <<"human_input">>)
  /\ route_config =
       DictSet(DictSet(EmptyDict, "thinker",
                       RouteConfig("thinker", <<"executor">>, FALSE, "none")),
               "executor",
               RouteConfig("executor", <<"humman_input">>, FALSE, "none"))
  /\ send_list = EmptyDict
  /\ heap = [o \in Refs |-> 0]
  /\ routed = NoResult

HumanNext ==
  \/ HumanNode
  \/ \E raises \in BOOLEAN : RepeatLlmReturns(raises)
  \/ MainAgentNext

(***************************************************************************)
(* StructuredLLMHandler.get_structured_response.  The coroutine suspends   *)
(* at each model invocation; llm.calls keeps the invocations in order,     *)
(* each with the model invoked and what came of it.                        *)
(***************************************************************************)
\* what structured_llm.ainvoke does (lines 196-214): a response of the
\* output structure, an empty one, one of another type, or an exception
Responses == {"success", "empty", "invalid", "raises"}

LlmIdle == [pc |-> "idle", retry_attempts |-> 0, attempt |-> 0,
            calls |-> <<>>, outcome |-> "none"]

\* the handler as constructed (lines 50-76), max_retries 3 by default
LlmAtRest ==
  /\ _max_retries = 3
  /\ llm = LlmIdle

LlmInit ==
  /\ _max_retries \in 0..MaxRetriesBound
  /\ llm = LlmIdle

\* _handle_llm_response (lines 175-214): the status it returns, or the
\* exception it raises again
_handle_llm_response(response) ==
  IF response = "success" THEN [exc |-> "none", status |-> "SUCCESS"]
  ELSE IF response = "raises" THEN [exc |-> "Exception", status |-> "none"]
  ELSE [exc |-> "none", status |-> "RETRY"]

\* lines 255-259 and the first test of the for loop at line 271;
\* retry_attempts 0 stands for None.  formats: _format_prompt returns
GetStructuredResponse(retry_attempts, formats) ==
  /\ llm.pc = "idle"
  /\ LET n == IF retry_attempts # 0 THEN retry_attempts ELSE _max_retries IN
     llm' = IF ~formats
            THEN [LlmIdle EXCEPT !.pc = "done", !.retry_attempts = n,
                                 !.outcome = "PromptFormattingError"]
            ELSE [LlmIdle EXCEPT !.pc = IF n >= 1 THEN "main" ELSE "fallback",
                                 !.retry_attempts = n,
                                 !.attempt = IF n >= 1 THEN 1 ELSE 0]
  /\ UNCHANGED <<_max_retries, _max_steps, step, failure, results, executor,
                 automation_errors, run, mainVars, session>>
  /\ UNCHANGED <<poolVars, task, askVars, stateVars>>

\* the main model's invocation of this attempt is over (lines 271-285)
MainResponds(response) ==
  /\ llm.pc = "main"
  /\ LET r == _handle_llm_response(response)
         calls == Append(llm.calls, <<"main", response>>) IN
     llm' = IF r.exc # "none"
            THEN [llm EXCEPT !.pc = "done", !.calls = calls,
                             !.outcome = r.exc]
            ELSE IF r.status = "SUCCESS"
            THEN [llm EXCEPT !.pc = "done", !.calls = calls,
                             !.outcome = "returned"]
            ELSE IF llm.attempt < llm.retry_attempts
            THEN [llm EXCEPT !.attempt = @ + 1, !.calls = calls]
            ELSE [llm EXCEPT !.pc = "fallback", !.calls = calls]
  /\ UNCHANGED <<_max_retries, _max_steps, step, failure, results, executor,
                 automation_errors, run, mainVars, session>>
  /\ UNCHANGED <<poolVars, task, askVars, stateVars>>

\* the fallback model's invocation is over (lines 287-302)
FallbackResponds(response) ==
  /\ llm.pc = "fallback"
  /\ LET r == _handle_llm_response(response)
         calls == Append(llm.calls, <<"fallback", response>>) IN
     llm' = [llm EXCEPT !.pc = "done", !.calls = calls,
                        !.outcome = IF r.exc # "none" THEN r.exc
                                    ELSE IF r.status = "SUCCESS"
                                    THEN "returned"
                                    ELSE "LLMResponseError"]
  /\ UNCHANGED <<_max_retries, _max_steps, step, failure, results, executor,
                 automation_errors, run, mainVars, session>>
  /\ UNCHANGED <<poolVars, task, askVars, stateVars>>

LlmNext ==
  \/ \E retry_attempts \in 0..MaxRetriesBound, formats \in BOOLEAN :
       GetStructuredResponse(retry_attempts, formats)
  \/ \E response \in Responses : MainResponds(response)
  \/ \E response \in Responses : FallbackResponds(response)

(***************************************************************************)
(* Specifications.  Each one runs one part of the program from its state   *)
(* after construction, with the other parts at rest.                       *)
(***************************************************************************)
PoolAtRest ==
  /\ _max_browsers = 1
  /\ _max_contexts_per_browser = 1
  /\ _on_step_screenshot = TRUE
  /\ _browsers = <<>>
  /\ _context_to_browser = <<>>
  /\ serial = 0
  /\ lastOp = NoOp
  /\ hist = <<>>
  /\ task = [t \in Tasks |-> Idle]

AskAtRest ==
  /\ AskInit
  /\ wait_for_impl = "release_waiter"

ExecAtRest ==
  /\ ExecInit
  /\ _max_steps = 0
  /\ LlmAtRest
  /\ MainAtRest

\* the handler as constructed, nothing else running
Init ==
  /\ PoolInit
  /\ task = [t \in Tasks |-> Idle]
  /\ AskAtRest
  /\ AfterThinker
  /\ ExecAtRest

SpecPool == Init /\ [][PoolNext]_vars

SpecPoolConc == Init /\ [][ConcNext]_vars

SpecWorkflows == Init /\ [][WorkflowsNext]_vars

InitAsk == PoolAtRest /\ AskInit /\ AfterThinker /\ ExecAtRest

SpecAsk == InitAsk /\ [][AskNext]_vars

SpecController == InitAsk /\ [][ControllerNext]_vars

\* the event loop runs a timeout callback that is due and resumes a caller
\* whose wait_for is over; when a client completes a send, connects,
\* disconnects or answers is up to the client
LoopRuns ==
  \A t \in Tasks : WF_vars(TimerFires(t)) /\ WF_vars(WaitReturns(t))

SpecControllerLive == InitAsk /\ [][ControllerNext]_vars /\ LoopRuns

InitRace == PoolAtRest /\ RaceInit /\ AfterThinker /\ ExecAtRest

SpecMain == InitAsk /\ [][MainNext]_vars

SpecRace == InitRace /\ [][ControllerNext]_vars

SpecWs == InitAsk /\ [][WsNext]_vars

InitRoute == PoolAtRest /\ AskAtRest /\ StateInit /\ ExecAtRest

SpecRoute == InitRoute /\ [][RouteNext]_vars

InitExec ==
  /\ PoolAtRest /\ AskAtRest /\ AfterThinker
  /\ ExecInit /\ LlmAtRest /\ MainAtRest

SpecExec == InitExec /\ [][ExecNext]_vars

\* every call the executor awaits returns or raises
CollaboratorsAnswer ==
  /\ WF_vars(\E raises \in BOOLEAN, user_task_completed \in BOOLEAN,
                current_task_completed \in BOOLEAN :
               LlmReturns(raises, user_task_completed, current_task_completed))
  /\ WF_vars(\E raises \in BOOLEAN : RunTaskReturns(raises))

SpecExecLive == InitExec /\ [][ExecNext]_vars /\ CollaboratorsAnswer

\* AutoAgent.run of form_agent.py calls ainvoke on a new state
InitFormWorkflow ==
  /\ PoolAtRest /\ AskAtRest /\ BeforeThinker
  /\ _max_steps \in 0..MaxStepsBound
  /\ step = 0
  /\ failure = 0
  /\ results = "none"
  /\ executor = NotEntered
  /\ automation_errors = 0
  /\ run = [pc |-> "ainvoke", context_id |-> 1]
  /\ LlmAtRest /\ MainAtRest

SpecFormWorkflow == InitFormWorkflow /\ [][FormWorkflowNext]_vars

\* the executor of one workflow while others use the shared handler
InitRun ==
  /\ PoolAtRest /\ AskAtRest /\ AfterThinker
  /\ ExecInit /\ LlmAtRest /\ MainAtRest

\* one handler, one call of get_structured_response
InitLlm ==
  /\ PoolAtRest /\ AskAtRest /\ AfterThinker
  /\ ExecInit /\ _max_steps = 0
  /\ LlmInit
  /\ MainAtRest

SpecLlm == InitLlm /\ [][LlmNext]_vars

\* the executor of main_agent.py from its first entry
InitMain ==
  /\ PoolAtRest /\ AskAtRest /\ AfterThinker
  /\ ExecInit /\ _max_steps = 0 /\ LlmAtRest
  /\ MainInit

SpecMainAgent == InitMain /\ [][MainAgentNext]_vars

\* human_node entered after an interruption, and the executor after it
InitHuman ==
  /\ PoolAfterRunTask /\ AskAtRest
  /\ ExecInit /\ _max_steps = 0 /\ LlmAtRest
  /\ HumanInit

SpecHuman == InitHuman /\ [][HumanNext]_vars

\* the workflow of one client session while other sessions come and go
SpecSessions == InitMain /\ [][SessionsNext]_vars

SpecRun == InitRun /\ [][RunNext]_vars

SpecApp == InitAsk /\ [][AppNext]_vars

(***************************************************************************)
(* C1. Pool capacity: after any sequence of create_context, get_context,   *)
(* close_context, close_browser and close_all calls the handler holds at   *)
(* most max_browsers browsers and every browser holds at most              *)
(* max_contexts_per_browser contexts.                                      *)
(***************************************************************************)
PoolCapacity ==
  /\ Len(_browsers) <= _max_browsers
  /\ \A i \in DOMAIN _browsers :
        Len(_browsers[i].contexts) <= _max_contexts_per_browser

\* a full pool: every browser slot used and every browser full
PoolFull ==
  /\ Len(_browsers) = _max_browsers
  /\ \A i \in DOMAIN _browsers :
        Len(_browsers[i].contexts) = _max_contexts_per_browser

\* a successful create_context has just filled a pool of two browsers
PoolCapacityWitness ==
  /\ PoolFull
  /\ Len(_browsers) = 2
  /\ lastOp.op = "create_context"
  /\ lastOp.exc = "none"

(***************************************************************************)
(* C2. Pool exhaustion: create_context on a full pool fails with the       *)
(* "Maximum number of browsers reached" error and leaves _browsers and     *)
(* _context_to_browser as they were; with max_browsers = 1 and             *)
(* max_contexts_per_browser = 2 the first two create_context() calls       *)
(* succeed and the third fails.                                            *)
(***************************************************************************)
ExhaustedStep ==
  (PoolFull /\ lastOp'.op = "create_context")
    => /\ lastOp'.exc = "RuntimeError"
       /\ lastOp'.why = "exhausted"
       /\ _browsers' = _browsers
       /\ _context_to_browser' = _context_to_browser

ExhaustionScenario ==
  (/\ _max_browsers = 1
   /\ _max_contexts_per_browser = 2
   /\ _on_step_screenshot
   /\ hist # Void
   /\ Len(hist) >= 3)
    => SubSeq(hist, 1, 3) = <<"ok", "ok", "exhausted">>

PoolExhaustion == [][ExhaustedStep]_vars /\ []ExhaustionScenario

\* the third create_context() on a pool of one browser and two contexts
PoolExhaustionWitness ==
  /\ _max_browsers = 1
  /\ _max_contexts_per_browser = 2
  /\ PoolFull
  /\ hist # Void
  /\ Len(hist) >= 3
  /\ lastOp.op = "create_context"
  /\ lastOp.exc = "RuntimeError"

(***************************************************************************)
(* C3. Get-or-create idempotence: get_context(id) called twice in a row    *)
(* with an id the pool did not know creates one context; the second call   *)
(* returns the object the first one created and leaves the pool unchanged. *)
(***************************************************************************)
GetTwiceStep ==
  (/\ lastOp.op = "get_context"
   /\ lastOp.exc = "none"
   /\ lastOp.created
   /\ lastOp'.op = "get_context"
   /\ lastOp'.arg = lastOp.arg)
    => /\ lastOp'.exc = "none"
       /\ lastOp'.ret = lastOp.ret
       /\ lastOp'.ret # None
       /\ ~lastOp'.created
       /\ serial' = serial
       /\ _browsers' = _browsers
       /\ _context_to_browser' = _context_to_browser

Ended(rid) == \A t \in Tasks : ask[t].rid # rid

ObservedOne ==
  \A rid \in DOMAIN future :
    (request[rid].via = "controller" /\ done(future[rid]) /\ Ended(rid))
      => request[rid].outcome \in {"value", "TimeoutError", "CancelledError"}

SecondResolveIsNoOp ==
  \A rid \in DOMAIN future : future[rid] = "result" => future'[rid] = "result"

ExactlyOnceResolution == []ObservedOne /\ [][SecondResolveIsNoOp]_vars

(***************************************************************************)
(* C5. Timeout outcome: a request whose wait ended because the timeout     *)
(* elapsed failed with TimeoutError, did not return a value, and its id is *)
(* in neither registry; this for get_human_in_loop and for                 *)
(* ConnectionManager.request_user_input.                                   *)
(***************************************************************************)
TimeoutOutcome ==
  \A rid \in DOMAIN request :
    request[rid].expired
      => /\ request[rid].outcome = "TimeoutError"
         /\ rid \notin _pending_requests \cup pending_requests

(***************************************************************************)
(* C6. Routing correctness: when the configuration of the stage has        *)
(* send = FALSE, the routing function returns the nodes of                 *)
(* conditional_nodes that occur in state.routes[from_node], one per        *)
(* occurrence in conditional_nodes and in that order, and nothing else.    *)
(***************************************************************************)
\* the elements of a list
Range(l) == {l[j] : j \in DOMAIN l}

ParentView ==
  [f \in DOMAIN send_list |->
     [i \in DOMAIN send_list[f] |-> heap[send_list[f][i]]]]

\* the sub-state the i-th dispatch carries
SubState(i) == heap[routed.sends[i].internal_state]

FanOutStep ==
  \A i \in DOMAIN routed.sends :
    SiblingMutates(i)
      => /\ ParentView' = ParentView
         /\ routes' = routes
         /\ \A j \in DOMAIN routed.sends \ {i} :
              heap'[routed.sends[j].internal_state] = SubState(j)

FanOutIndependence == [][FanOutStep]_vars

(***************************************************************************)
(* C8. Retry ceiling: executor_node ends in FAILED (routed to END without  *)
(* a final response) exactly when failure > max_failures or                *)
(* step > max_steps, and starts no further iteration once either ceiling   *)
(* is exceeded.                                                            *)
(***************************************************************************)
Exceeded == failure > max_failures \/ step > _max_steps

RetryCeiling ==
  /\ executor.outcome = "FAILED" => Exceeded
  /\ (executor.pc = "end" /\ Exceeded) => executor.outcome = "FAILED"
  /\ Exceeded => executor.pc # "llm"

(***************************************************************************)
(* C9. Automation failures are retried: a step in which run_task raises    *)
(* increments failure, and the loop goes on to its next iteration unless   *)
(* that increment exceeds max_failures; so two automation errors followed  *)
(* by a reported completion end in DONE with failure = 2.                  *)
(***************************************************************************)
AutomationErrorStep ==
  (executor.pc = "run_task" /\ automation_errors' = automation_errors + 1)
  => /\ failure' = failure + 1
     /\ LoopTest(step', failure', _max_steps) => executor'.pc = "llm"

AutomationRetried == [][AutomationErrorStep]_vars

(***************************************************************************)
(* C11. close_context is idempotent: close_context(id) for an id the pool  *)
(* does not hold (never created, or already closed) reports success and    *)
(* leaves _browsers and _context_to_browser as they are.                   *)
(***************************************************************************)
CloseAgainStep ==
  \A cid \in CallerIds \cup DOMAIN _context_to_browser :
    (cid \notin DOMAIN _context_to_browser /\ CallCloseContext(cid, FALSE))
      => /\ lastOp'.ret = 1
         /\ _browsers' = _browsers
         /\ _context_to_browser' = _context_to_browser

CloseContextIdempotent == [][CloseAgainStep]_vars

(***************************************************************************)
(* C12. No index leak on handle failure: when context.close() raises       *)
(* inside close_context, the call raises nothing and the context is gone   *)
(* from its browser's contexts and from _context_to_browser.               *)
(***************************************************************************)
\* cid is a key of some browser's contexts
Held(B, cid) == \E i \in DOMAIN B : cid \in ContextKeys(B[i].contexts)

HandleFailureStep ==
  \A cid \in DOMAIN _context_to_browser :
    (ClosedObject(_browsers, _context_to_browser, cid) # None
       /\ CallCloseContext(cid, TRUE))
      => /\ lastOp'.exc = "none"
         /\ cid \notin DOMAIN _context_to_browser'
         /\ ~Held(_browsers', cid)

NoIndexLeak == [][HandleFailureStep]_vars

(***************************************************************************)
(* C13. Close ordering: while close_context is releasing the handle of a   *)
(* context (suspended in context.close()), that context is in neither map, *)
(* so a get_context call made meanwhile does not return it.                *)
(***************************************************************************)
\* what get_context(cid) would return if it were called now
WouldGet(cid) ==
  get_context(_browsers, _context_to_browser, _max_browsers,
              _max_contexts_per_browser, _on_step_screenshot, cid,
              serial + 1).ret

CloseOrdering ==
  \A t \in Tasks :
    task[t].pc = "close_wait"
      => /\ task[t].cid \notin DOMAIN _context_to_browser
         /\ ~Held(_browsers, task[t].cid)
         /\ WouldGet(task[t].cid) # task[t].obj

(***************************************************************************)
(* C14. close_browser(id) of a browser in the pool closes every child      *)
(* context whose close() does not raise, whatever the other children do,   *)
(* raises nothing, and when it returns the browser is not in _browsers.    *)
(***************************************************************************)
CloseBrowserStep ==
  \A bid \in BrowserIds(_browsers) :
    \A failObjs \in SUBSET ObjectsClosedBy(bid), browserRaises \in BOOLEAN :
      CallCloseBrowser(bid, failObjs, browserRaises)
        => /\ lastOp'.exc = "none"
           /\ AllObjects(_browsers') \cap ObjectsClosedBy(bid) \subseteq failObjs
           /\ bid \notin BrowserIds(_browsers')

CloseSession == [][CloseBrowserStep]_vars

(***************************************************************************)
(* C15. close_all completes its sweep: it raises nothing, and whatever     *)
(* context or browser close() raises on the way, it reaches every browser  *)
(* that was in the pool: exactly the browsers whose own close() raises are *)
(* left in _browsers.                                                      *)
(***************************************************************************)
CloseAllSweeps ==
  lastOp.op = "close_all"
    => /\ lastOp.exc = "none"
       /\ BrowserIds(_browsers) = lastOp.raised

\* close_all has run over two browsers; the first one, whose close() raised,
\* is still there, and the index entry of a context of the second one shows
\* that the sweep went on to it
CloseAllSweepsWitness ==
  /\ lastOp.op = "close_all"
  /\ Len(_browsers) = 1
  /\ \E cid \in DOMAIN _context_to_browser :
       /\ _context_to_browser[cid] \notin BrowserIds(_browsers)
       /\ _context_to_browser[cid] > _browsers[1].id

(***************************************************************************)
(* C16. Late or unknown responses are harmless: an input_response handled  *)
(* by _handle_client, or an answer handed to ws_manager.resolve_request,   *)
(* whose request id is not in the registry or whose future already holds a *)
(* result, raises nothing, leaves the registry as it is, and changes no    *)
(* future and no stored result: in every reachable state the resolve of    *)
(* such an id returns the registry and the futures it was given.           *)
(***************************************************************************)
\* request_id is unknown to the registry, or its request has been answered
LateResponse(registry, request_id) ==
  \/ request_id \notin registry
  \/ request_id \in DOMAIN future /\ future[request_id] = "result"

\* what a resolve that changes nothing returns
Untouched(registry) ==
  [registry |-> registry, F |-> future, R |-> future_result, exc |-> "none"]

CancelAllStep ==
  (~stopping /\ stopping')
    => \A rid \in _pending_requests :
         /\ done(future'[rid])
         /\ ~done(future[rid])
              => future'[rid] = "exception" /\ future_result'[rid] = "none"

\* stop_websocket_server cancelled the request rid
Cancelled(rid) == future[rid] = "exception"

CancelledDistinct ==
  \A rid \in DOMAIN future :
    (Cancelled(rid) /\ request[rid].outcome # "none")
      => request[rid].outcome \notin {"TimeoutError", "value"}

CancelAll == []CancelledDistinct /\ [][CancelAllStep]_vars

(***************************************************************************)
(* C18. Resolve race: of the input_response messages that connected        *)
(* clients send for one request id, exactly one sets the result and        *)
(* removes the registry entry: a result that is set is never set again,    *)
(* its id is no longer registered, and the caller of get_human_in_loop     *)
(* returns once, with the value of the response that set the result.       *)
(***************************************************************************)
\* no step sets a result a second time or changes what a caller observed
ResolvedOnceStep ==
  \A rid \in DOMAIN future :
    /\ future[rid] = "result"
         => future'[rid] = "result" /\ future_result'[rid] = future_result[rid]
    /\ request[rid].outcome # "none" => request'[rid] = request[rid]

WinnerTakesAll ==
  \A rid \in DOMAIN future :
    /\ future[rid] = "result"
         => /\ rid \notin _pending_requests
            /\ \E c \in Clients : future_result[rid] = answer[c]
    /\ future[rid] # "result" => future_result[rid] = "none"
    /\ request[rid].outcome = "value" => request[rid].got = future_result[rid]

HardTimeout ==
  \A t \in Tasks : (ask[t].pc # "idle") ~> (ask[t].pc = "idle")

\* the part of it for a caller that has reached wait_for
WaitEnds ==
  \A t \in Tasks : (ask[t].pc = "waiting") ~> (ask[t].pc = "idle")

(***************************************************************************)
(* C20. Missing route: a routing function called for a stage that has no   *)
(* entry in state.route_config fails with RouteNotFoundError and returns   *)
(* no successor and no dispatch.                                           *)
(***************************************************************************)
MissingRoute ==
  (routed.from_node # "none" /\ routed.from_node \notin DOMAIN route_config)
    => /\ routed.exc = "RouteNotFoundError"
       /\ routed.next_nodes = <<>>
       /\ routed.sends = <<>>

(***************************************************************************)
(* C21. Undeclared selection: a routing function called for a stage whose  *)
(* conditional_nodes is not empty while state.routes holds no selection    *)
(* for the stage fails with RouteConfigurationError; it returns an empty   *)
(* list without failing only when conditional_nodes is empty.              *)
(***************************************************************************)
\* the stage last routed declared conditional nodes and no fan-out
Conditional(from_node) ==
  /\ from_node \in DOMAIN route_config
  /\ ~route_config[from_node].send
  /\ route_config[from_node].conditional_nodes # <<>>

UndeclaredSelection ==
  /\ (Conditional(routed.from_node) /\ routed.from_node \notin DOMAIN routes)
       => routed.exc = "RouteConfigurationError"
  /\ ( /\ routed.from_node \in DOMAIN route_config
       /\ ~route_config[routed.from_node].send
       /\ routed.exc = "none"
       /\ routed.next_nodes = <<>> )
       => route_config[routed.from_node].conditional_nodes = <<>>

(***************************************************************************)
(* C22. Routing is pure: a call of the routing function leaves             *)
(* state.routes, state.route_config and state.send_list (and the           *)
(* sub-states send_list refers to) as they were, and calling it again for  *)
(* the same stage returns what the last call returned.                     *)
(***************************************************************************)
\* a step in which a routing function returned something new
RoutingStep ==
  routed' # routed => UNCHANGED <<routes, route_config, send_list, heap>>

\* a call made now returns what the last call of that stage returned
SameResult ==
  routed.from_node # "none"
    => routing_function(route_config, routes, send_list, routed.from_node)
         = routed

SomeRoutes(from_node) ==
  {EmptyDict} \cup {DictSet(EmptyDict, from_node, <<n>>) : n \in Targets}

FanOutDispatch ==
  (routed.from_node \in DOMAIN route_config
     /\ route_config[routed.from_node].send)
  => LET config == route_config[routed.from_node]
         entries == Get(send_list, routed.from_node, <<>>)
     IN /\ routed.exc = "none"
        /\ routed.next_nodes = <<>>
        /\ Len(routed.sends) = Len(entries)
        /\ \A i \in DOMAIN entries :
             /\ routed.sends[i].node = config.send_to
             /\ routed.sends[i].internal_state = entries[i]
        /\ \A rt \in SomeRoutes(routed.from_node) :
             routing_function(route_config, rt, send_list, routed.from_node)
               = routed

\* two different entries were dispatched, while routes named another node
FanOutDispatchWitness ==
  /\ routed.from_node = "thinker"
  /\ "thinker" \in DOMAIN route_config
  /\ route_config["thinker"].send
  /\ Get(send_list, "thinker", <<>>) = <<"o2", "o1">>
  /\ Get(routes, "thinker", <<>>) # <<>>
  /\ Len(routed.sends) = 2
  /\ routed.sends[1].internal_state = "o2"

(***************************************************************************)
(* C24. Configuration errors are fatal: when the pool is exhausted while   *)
(* the executor runs a task, or the routing function raises for the        *)
(* executor, run raises to its caller; it does not return a final state,   *)
(* and the executor does not go on to another attempt.                     *)
(***************************************************************************)
ConfigurationError ==
  \/ executor.why = "pool"
  \/ routed.from_node = "executor" /\ routed.exc # "none"

ConfigurationErrorsFatal ==
  ConfigurationError => executor.pc = "end" /\ run.pc # "returned"

(***************************************************************************)
(* C25. Terminal release without close: the step in which run returns the  *)
(* final state of a DONE or FAILED workflow leaves the pool as it was, so  *)
(* the context of its context_id is still there for a later run.           *)
(***************************************************************************)
RunEnds == run.pc = "ainvoke" /\ run'.pc = "returned"

TerminalRelease ==
  [][RunEnds => UNCHANGED <<_browsers, _context_to_browser>>]_vars

(***************************************************************************)
(* C26. Distinguishable failure: the final state run returns for a FAILED  *)
(* workflow carries the reason the executor ended for (a ceiling, a failed *)
(* task, an exhausted pool), and the final state of a DONE workflow        *)
(* carries its final response.  executor_node writes results and the       *)
(* executor's routing entries; the entries are END however it ended, so    *)
(* results is the one field that could tell.                               *)
(***************************************************************************)
DistinguishableFailure ==
  run.pc = "returned" =>
    IF executor.outcome = "DONE" THEN results = "final_response"
    ELSE results = executor.why

(***************************************************************************)
(* C27. Model retry then fallback: a call of get_structured_response       *)
(* invokes the main model at most retry_attempts times; it invokes the     *)
(* fallback at most once, last, and only after retry_attempts failed       *)
(* invocations of the main model; a call that is over without a response   *)
(* has gone through all of them, and ends with LLMResponseError.           *)
(***************************************************************************)
Invocations(model) == {i \in DOMAIN llm.calls : llm.calls[i][1] = model}

FailedInvocations(model) ==
  {i \in Invocations(model) : llm.calls[i][2] # "success"}

PrimaryExhausted ==
  Cardinality(FailedInvocations("main")) = llm.retry_attempts

RetryThenFallback ==
  /\ Cardinality(Invocations("main")) <= llm.retry_attempts
  /\ Cardinality(Invocations("fallback")) <= 1
  /\ \A i \in Invocations("fallback") : i = Len(llm.calls) /\ PrimaryExhausted
  /\ llm.outcome = "LLMResponseError" =>
        PrimaryExhausted /\ Cardinality(FailedInvocations("fallback")) = 1
  /\ (llm.pc = "done" /\ llm.outcome \notin {"returned", "PromptFormattingError"})
        => /\ PrimaryExhausted
           /\ Cardinality(Invocations("fallback")) = 1
           /\ llm.outcome = "LLMResponseError"

(***************************************************************************)
(* C28. Transient model errors are counted, not fatal: the step in which   *)
(* get_structured_response raises inside the executor loop adds one to     *)
(* failure, and the executor goes on unless a ceiling is exceeded; no      *)
(* exception leaves executor_node.                                         *)
(***************************************************************************)
ModelRaises == executor.pc = "llm" /\ executor'.why = "llm"

ModelErrorCounted ==
  [][ModelRaises =>
       /\ failure' = failure + 1
       /\ executor'.outcome # "RAISED"
       /\ LoopTest(step', failure', _max_steps) => executor'.pc # "end"]_vars

(***************************************************************************)
(* C29. Interruption reaches the human stage: once the model has reported  *)
(* an interruption to the executor, the state carries the question and the *)
(* resumption hint and no error was raised, and the stage the executor's   *)
(* routing function resolves is human_input, which the workflow is at.     *)
(***************************************************************************)
InterruptionReported == main.waiting /\ main.pc # "exe_llm"

InterruptionReachesHuman ==
  InterruptionReported =>
    /\ main.question = "question"
    /\ main.next_step = "next_step"
    /\ main.outcome # "RAISED"
    /\ routed.from_node = "executor" =>
          /\ routed.exc = "none"
          /\ routed.next_nodes = <<"human_input">>
          /\ main.pc = "human_input"

(***************************************************************************)
(* C30. Human stage outcomes: the step that ends human_node follows a      *)
(* request to the human which the node made; when the request got a value, *)
(* the value is in the state and the executor is entered again, at the     *)
(* model call that uses the resumption hint; when it timed out the         *)
(* workflow is over, failed, and the executor is not entered.              *)
(***************************************************************************)
HumanNodeOver == main.pc = "human_input" /\ main'.pc # "human_input"

Answered(rid) ==
  /\ request[rid].outcome = "value"
  /\ request[rid].got \in main'.input
  /\ main'.pc = "repeat_llm"
  /\ main'.next_step = main.next_step

TimedOutFailed(rid) ==
  /\ request[rid].outcome = "TimeoutError"
  /\ main'.pc = "end"
  /\ main'.outcome = "FAILED"

HumanStageOutcomes ==
  [][HumanNodeOver =>
       \E rid \in DOMAIN request : Answered(rid) \/ TimedOutFailed(rid)]_vars

(***************************************************************************)
(* C31. First-fit allocation: a call that creates a context puts it in the *)
(* earliest-created browser that had a free slot; a browser is created     *)
(* only when every browser was full and there were fewer than              *)
(* max_browsers of them, and the context then goes to the new browser.     *)
(***************************************************************************)
Full(b) == Len(b.contexts) >= _max_contexts_per_browser

\* the browsers, by position, that hold the context object obj
Holders(B, obj) ==
  {i \in DOMAIN B : \E k \in DOMAIN B[i].contexts : B[i].contexts[k].obj = obj}

ContextCreated == serial' = serial + 1 /\ lastOp'.created

BrowserCreated == Len(_browsers') > Len(_browsers)

FirstFitStep ==
  /\ ContextCreated =>
       \E i \in Holders(_browsers', serial') :
         /\ Holders(_browsers', serial') = {i}
         /\ \A j \in 1..(i - 1) : j \in DOMAIN _browsers /\ Full(_browsers[j])
         /\ i \in DOMAIN _browsers =>
               ~Full(_browsers[i]) /\ _browsers'[i].id = _browsers[i].id
  /\ BrowserCreated =>
       /\ \A j \in DOMAIN _browsers : Full(_browsers[j])
       /\ Len(_browsers) < _max_browsers
       /\ Len(_browsers') = Len(_browsers) + 1

\* the same about the next call, in a state with several candidates
FirstFitNext ==
  \A cid0 \in CallerIds \cup {None} :
    LET r == create_context(_browsers, _context_to_browser, _max_browsers,
                            _max_contexts_per_browser, _on_step_screenshot,
                            cid0, serial + 1)
        free == {i \in DOMAIN _browsers : ~Full(_browsers[i])}
    IN r.exc = "none" /\ free # {} =>
         /\ Len(r.B) = Len(_browsers)
         /\ Holders(r.B, serial + 1) = {Min(free)}

LiveAsks(via) ==
  {ask[t].rid : t \in {u \in Tasks : ask[u].pc # "idle" /\ ask[u].via = via}}

RegistryHoldsLiveAsks ==
  /\ _pending_requests \subseteq LiveAsks("controller")
  /\ pending_requests \subseteq LiveAsks("manager")

(***************************************************************************)
(* C36. Workflow isolation: while a workflow is running on its context,    *)
(* the end or the cleanup of another client session leaves that context    *)
(* in the pool, in its browser.                                            *)
(***************************************************************************)
HoldsContext ==
  /\ main.pc # "end"
  /\ ClosedObject(_browsers, _context_to_browser, main.context_id) # None

OtherSessionClosed == lastOp'.op = "close_all" /\ main' = main

WorkflowIsolation ==
  [][(HoldsContext /\ OtherSessionClosed) =>
       /\ main.context_id \in DOMAIN _context_to_browser'
       /\ ClosedObject(_browsers', _context_to_browser', main.context_id)
            = ClosedObject(_browsers, _context_to_browser, main.context_id)]_vars

(***************************************************************************)
(* C33. The EXECUTING loop terminates: one executor_node invocation calls  *)
(* run_task at most max_steps + 1 times, every iteration that goes round   *)
(* the loop again adds one to step, and, when every call it awaits returns *)
(* or raises, the invocation returns or raises.                            *)
(***************************************************************************)
\* the run_task calls made so far: those that returned, those that raised,
\* and the one in progress
RunTaskCalls ==
  step + automation_errors + (IF executor.pc = "run_task" THEN 1 ELSE 0)

BoundedCalls == RunTaskCalls <= _max_steps + 1

GoesRound == executor.pc = "run_task" /\ executor'.pc = "llm"

StepAdvances == GoesRound => step' = step + 1

ExecutorOver == executor.pc = "end"

Indexed(B, C, cid) ==
  /\ C[cid] \in BrowserIds(B)
  /\ cid \in ContextKeys(B[BrowserIndex(B, C[cid])].contexts)

NoDanglingIndex ==
  /\ \A cid \in DOMAIN _context_to_browser :
        Indexed(_browsers, _context_to_browser, cid)
  /\ ~(lastOp.op = "get_context" /\ lastOp.exc = "KeyError")

(***************************************************************************)
(* C35. Single owner: every context id is in the contexts map of at most   *)
(* one browser, and that browser is the one _context_to_browser maps the   *)
(* id to.                                                                  *)
(***************************************************************************)
Owners(B, cid) == {B[i].id : i \in {j \in DOMAIN B : cid \in ContextKeys(B[j].contexts)}}

AllContextKeys(B) == UNION {ContextKeys(B[i].contexts) : i \in DOMAIN B}

SingleOwner ==
  \A cid \in AllContextKeys(_browsers) :
    /\ cid \in DOMAIN _context_to_browser
    /\ Owners(_browsers, cid) = {_context_to_browser[cid]}

(***************************************************************************)
(* C39. Concurrent get-or-create: when two workflows call get_context with *)
(* the same unknown id, one context is created for the id, both workflows  *)
(* receive that context, and the pool holds one entry for the id.          *)
(***************************************************************************)
\* the live context of cid
Live(cid) == ClosedObject(_browsers, _context_to_browser, cid)

\* a context is created for an id only when the id has no live context
CreatedOnce ==
  \A cid \in CallerIds :
    LET after == ClosedObject(_browsers', _context_to_browser', cid) IN
    (after # None /\ after # Live(cid)) => Live(cid) = None

\* a get_context that returns while the id has a live context returns that
\* context and creates nothing
SameContext ==
  \A t \in Tasks :
    (task[t].pc = "idle" /\ task'[t].pc = "idle" /\ task'[t] # task[t]
       /\ task'[t].obj # None /\ Live(task'[t].cid) # None)
      => /\ task'[t].obj = Live(task'[t].cid)
         /\ serial' = serial

\* the pool holds one entry for every id
OneEntry ==
  \A cid \in AllContextKeys(_browsers) :
    /\ Cardinality(Owners(_browsers, cid)) = 1
    /\ \A i \in DOMAIN _browsers :
          Cardinality({k \in DOMAIN _browsers[i].contexts :
                         _browsers[i].contexts[k].cid = cid}) <= 1

RoutedStagesExist ==
  routed.exc = "none" =>
    /\ \A i \in DOMAIN routed.next_nodes :
          routed.next_nodes[i] \in Registered \cup {END}
    /\ \A i \in DOMAIN routed.sends :
          routed.sends[i].node \in Registered \cup {END}

(***************************************************************************)
(* C32. Shutdown: once the lifespan is over and the workflows it cancelled *)
(* have ended, every request for user input that was outstanding is        *)
(* resolved and every session is closed: no registered future is pending,  *)
(* and the pool holds no browser unless a browser's close() raised.        *)
(***************************************************************************)
ShutdownOver ==
  /\ session.lifespan = "stopped"
  /\ ~session.must_cancel
  /\ ~Running

ShutdownResolvesAndCloses ==
  ShutdownOver =>
    /\ \A rid \in pending_requests : done(future[rid])
    /\ lastOp.raised = {} => _browsers = <<>>

(***************************************************************************)
(* C10. Capacity under concurrency: with several workflows calling         *)
(* create_context, get_context and close_context on the same handler,      *)
(* interleaved wherever a call suspends, no reachable state has more than  *)
(* max_browsers browsers or a browser with more than                       *)
(* max_contexts_per_browser contexts.                                      *)
(***************************************************************************)
ConcurrentCapacity ==
  /\ Cardinality(BrowserIds(_browsers)) <= _max_browsers
  /\ \A i \in DOMAIN _browsers :
        Cardinality(ContextKeys(_browsers[i].contexts))
          <= _max_contexts_per_browser

\* a workflow is suspended in close_context while another one has since
\* created a context and filled the pool
ConcurrentCapacityWitness ==
  \E t \in Tasks :
    /\ task[t].pc = "close_wait"
    /\ serial > task[t].s
    /\ PoolFull

====
